---- MODULE Spec2Model ----
(***************************************************************************)
(* Team / board / task planner: the four JSON collections (users, teams,   *)
(* boards, tasks) and the store operations of concrete/user.py,            *)
(* concrete/teams.py and concrete/board.py.                                *)
(*                                                                         *)
(* Representation.  A Python str is a sequence of one-character strings,   *)
(* so len(), strip() and the name pattern are computed, not assumed.  The  *)
(* empty str and None are both <<>> (the code only tests them with `not`). *)
(* A uuid4 is <<kind, n>>, n the position of the record in its collection: *)
(* fresh and never reused, because no collection ever shrinks.  A team's   *)
(* members list never holds duplicates and its order is never read by the  *)
(* operations modelled here, so it is a set.  datetime.now().isoformat()   *)
(* is <<t>> for some t in Times.  The creation times of users, teams and  *)
(* tasks, and the descriptions of boards and tasks, are stored but never   *)
(* read by any operation modelled here, and are left out of the records.   *)
(*                                                                         *)
(* Files.  users, teams, boards and tasks are the parsed contents of the   *)
(* four JSON files; torn is the set of files that a save has opened for    *)
(* writing (which truncates them) and not yet written.  callers holds,     *)
(* for each concurrent caller, where its call stands between its loads     *)
(* and its save.  In the specifications that run the operations one at a   *)
(* time every call is one step, no file is ever torn and no caller is      *)
(* ever between steps.                                                     *)
(***************************************************************************)
EXTENDS Integers, Sequences, FiniteSets, TLC

VARIABLES users, teams, boards, tasks, last, torn, callers

vars == <<users, teams, boards, tasks, last, torn, callers>>

None == <<>>

(***************************************************************************)
(* Program constants.                                                      *)
(***************************************************************************)
MAX_NAME_LENGTH == 64
MAX_DISPLAY_NAME_LENGTH == 64
MAX_DISPLAY_NAME_UPDATE_LENGTH == 128
TEAM_NAME_LIMIT == 64
TEAM_DESCRIPTION_LIMIT == 128
TEAM_MEMBER_LIMIT == 50
BOARD_NAME_LIMIT == 64
BOARD_DESCRIPTION_LIMIT == 128
TASK_TITLE_LIMIT == 64
TASK_DESCRIPTION_LIMIT == 128

VALID_TASK_STATUSES == {"OPEN", "IN_PROGRESS", "COMPLETE"}

(***************************************************************************)
(* Bounds of the model.                                                    *)
(***************************************************************************)
MaxEntities == 4
MaxTime == 1
MaxListLen == 2
CapUsers == 52
MaxBoardTime == 2

Times == 1..MaxTime

BoardTimes == 1..MaxBoardTime

(***************************************************************************)
(* Strings.                                                                *)
(***************************************************************************)
Whitespace == {" ", "\t", "\n"}

RECURSIVE LStrip(_)
LStrip(s) ==
    IF s # <<>> /\ Head(s) \in Whitespace THEN LStrip(Tail(s)) ELSE s

RECURSIVE RStrip(_)
RStrip(s) ==
    IF s # <<>> /\ s[Len(s)] \in Whitespace
    THEN RStrip(SubSeq(s, 1, Len(s) - 1))
    ELSE s

Strip(s) == RStrip(LStrip(s))

Repeat(c, n) == [i \in 1..n |-> c]

NameChars ==
    {"a", "b", "c", "d", "e", "f", "g", "h", "i", "j", "k", "l", "m",
     "n", "o", "p", "q", "r", "s", "t", "u", "v", "w", "x", "y", "z",
     "A", "B", "C", "D", "E", "F", "G", "H", "I", "J", "K", "L", "M",
     "N", "O", "P", "Q", "R", "S", "T", "U", "V", "W", "X", "Y", "Z",
     "0", "1", "2", "3", "4", "5", "6", "7", "8", "9", "_", "-"}

MatchesNamePattern(s) ==
    /\ s # <<>>
    /\ \A i \in 1..Len(s) : s[i] \in NameChars

Contains(list, x) == \E i \in 1..Len(list) : list[i] = x

ToSet(list) == {list[i] : i \in 1..Len(list)}

Uuid(kind, n) == <<kind, n>>

(***************************************************************************)
(* Concurrent callers.  A caller is idle, or has loaded and computed what  *)
(* it will save to one file ("computed"), or has opened that file for      *)
(* writing ("writing"), or is done with the outcome out.  cause is the     *)
(* exception class a load or save of the call raised, "none" if none did.  *)
(***************************************************************************)
Callers == {1, 2}

NoOutcome == [op |-> "none", exc |-> "none", msg |-> "", id |-> None]

Idle ==
    [pc |-> "idle", op |-> "none", req |-> <<>>, file |-> "none", new |-> <<>>,
     id |-> None, cause |-> "none", out |-> NoOutcome]

(***************************************************************************)
(* Outcome of the last store call: the operation, the exception class it   *)
(* raised ("none" on success), the exception message, and the id returned  *)
(* or, for a failure whose message quotes an id, the id quoted.            *)
(***************************************************************************)
Returned(op, id) ==
    /\ last' = [op |-> op, exc |-> "none", msg |-> "", id |-> id]
    /\ UNCHANGED <<torn, callers>>

RaiseTruncating(op, exc, msg) ==
    /\ last' = [op |-> op, exc |-> exc, msg |-> msg, id |-> None]
    /\ users' = <<>>
    /\ UNCHANGED <<teams, boards, tasks, torn, callers>>

Raise(op, exc, msg) ==
    /\ last' = [op |-> op, exc |-> exc, msg |-> msg, id |-> None]
    /\ UNCHANGED <<users, teams, boards, tasks, torn, callers>>

RaiseNaming(op, exc, msg, id) ==
    /\ last' = [op |-> op, exc |-> exc, msg |-> msg, id |-> id]
    /\ UNCHANGED <<users, teams, boards, tasks, torn, callers>>

(***************************************************************************)
(* utils/validators.py.  A validator returns [ok, val, msg]; not ok means  *)
(* it raised validators.ValidationError(msg).                              *)
(***************************************************************************)
Valid(v) == [ok |-> TRUE, val |-> v, msg |-> ""]

Invalid(m) == [ok |-> FALSE, val |-> None, msg |-> m]

validate_required_field(value) ==
    IF Strip(value) = <<>> THEN Invalid("cannot be empty") ELSE Valid(Strip(value))

validate_string_length(value, max_length) ==
    IF Len(value) > max_length THEN Invalid("too long") ELSE Valid(value)

validate_name(name) ==
    LET req == validate_required_field(name)
        len == validate_string_length(req.val, MAX_NAME_LENGTH)
    IN  IF ~req.ok THEN req
        ELSE IF ~len.ok THEN len
        ELSE IF ~MatchesNamePattern(len.val) THEN Invalid("bad characters")
        ELSE Valid(len.val)

validate_display_name(display_name, is_update) ==
    IF display_name # <<>>
    THEN validate_string_length(
             Strip(display_name),
             IF is_update THEN MAX_DISPLAY_NAME_UPDATE_LENGTH
                          ELSE MAX_DISPLAY_NAME_LENGTH)
    ELSE Valid(<<>>)

IsUuid(v) == Len(v) = 2 /\ v[1] \in {"u", "t", "b", "k"}

validate_uuid(uuid_str) ==
    IF uuid_str = None THEN Invalid("cannot be empty")
    ELSE IF ~IsUuid(uuid_str) THEN Invalid("must be a valid UUID")
    ELSE Valid(uuid_str)

(***************************************************************************)
(* concrete/user.py                                                        *)
(***************************************************************************)
UserExistsAlways(user_list, user_id) == TRUE

UserExists(user_list, user_id) ==
    \E i \in 1..Len(user_list) : user_list[i].id = user_id

NameTakenTrivial(user_list, name, exclude_id) == FALSE

NameTaken(user_list, name, exclude_id) ==
    \E i \in 1..Len(user_list) :
        user_list[i].name = name /\ user_list[i].id # exclude_id

StoreUserAlone(user_list, new_user) == <<new_user>>

StoreUser(user_list, new_user) == Append(user_list, new_user)

DisplayNameOnly(display_name, name) == display_name

DisplayNameOrName(display_name, name) ==
    IF display_name # <<>> THEN display_name ELSE name

create_user(name_in, display_name_in) ==
    LET name == validate_name(name_in)
        display_name == validate_display_name(display_name_in, FALSE)
        user_id == Uuid("u", Len(users) + 1)
    IN  IF ~name.ok \/ ~display_name.ok
        THEN Raise("create_user", "ValidationError", "Failed to create user")
        ELSE IF NameTaken(users, name.val, None)
        THEN Raise("create_user", "DuplicateResourceError", "User name must be unique")
        ELSE /\ users' = StoreUser(users,
                    [id |-> user_id,
                     name |-> name.val,
                     display_name |-> DisplayNameOrName(display_name.val, name.val)])
             /\ Returned("create_user", user_id)
             /\ UNCHANGED <<teams, boards, tasks>>

UserIndex(user_list, user_id) ==
    IF \E i \in 1..Len(user_list) : user_list[i].id = user_id
    THEN CHOOSE i \in 1..Len(user_list) :
             /\ user_list[i].id = user_id
             /\ \A j \in 1..(i - 1) : user_list[j].id # user_id
    ELSE 0

NameChangeNever(name, stored_name) == FALSE

NameChange(name, stored_name) == name # <<>> /\ name # stored_name

update_user(user_id_in, name_in, display_name_in) ==
    LET user_id == validate_uuid(user_id_in)
        name == Strip(name_in)
        display_name == validate_display_name(display_name_in, TRUE)
        user_index == UserIndex(users, user_id.val)
    IN  IF ~user_id.ok \/ ~display_name.ok
        THEN Raise("update_user", "ValidationError", "Failed to update user")
        ELSE IF user_index = 0
        THEN Raise("update_user", "ResourceNotFoundError", "User not found")
        ELSE IF NameChange(name, users[user_index].name)
        THEN Raise("update_user", "ValidationError", "User name cannot be updated")
        ELSE /\ users' = [users EXCEPT ![user_index].display_name =
                              IF display_name.val # <<>> THEN display_name.val ELSE @]
             /\ Returned("update_user", None)
             /\ UNCHANGED <<teams, boards, tasks>>

IsMemberAlways(team, user_id) == TRUE

IsMember(team, user_id) == user_id \in team.members

UserTeams(team_list, user_id) ==
    LET mine == SelectSeq(team_list, LAMBDA team : IsMember(team, user_id))
    IN  [k \in 1..Len(mine) |->
            [name |-> mine[k].name, description |-> mine[k].description]]

get_user_teams(user_id_in) ==
    LET user_id == validate_uuid(user_id_in)
    IN  IF ~user_id.ok
        THEN [exc |-> "ValidationError", msg |-> user_id.msg, val |-> <<>>]
        ELSE IF UserIndex(users, user_id.val) = 0
        THEN [exc |-> "ResourceNotFoundError", msg |-> "User not found", val |-> <<>>]
        ELSE [exc |-> "none", msg |-> "", val |-> UserTeams(teams, user_id.val)]

(***************************************************************************)
(* concrete/teams.py.  Every failure is a ValueError.                      *)
(***************************************************************************)
TeamIndex(team_list, team_id) ==
    IF \E i \in 1..Len(team_list) : team_list[i].id = team_id
    THEN CHOOSE i \in 1..Len(team_list) :
             /\ team_list[i].id = team_id
             /\ \A j \in 1..(i - 1) : team_list[j].id # team_id
    ELSE 0

TeamNameTaken(team_list, name) ==
    \E i \in 1..Len(team_list) : team_list[i].name = name

TeamNameTakenByOtherNever(team_list, name, team_id) == FALSE

TeamNameTakenByOther(team_list, name, team_id) ==
    \E i \in 1..Len(team_list) :
        team_list[i].name = name /\ team_list[i].id # team_id

InitialMembers(admin) == {admin}

create_team(name_in, description_in, admin_in) ==
    LET name == Strip(name_in)
        description == Strip(description_in)
        admin == admin_in
        team_id == Uuid("t", Len(teams) + 1)
    IN  IF name = <<>>
        THEN Raise("create_team", "ValueError", "Team name is required")
        ELSE IF Len(name) > TEAM_NAME_LIMIT
        THEN Raise("create_team", "ValueError", "Team name must be <= 64 characters")
        ELSE IF Len(description) > TEAM_DESCRIPTION_LIMIT
        THEN Raise("create_team", "ValueError", "Description must be <= 128 characters")
        ELSE IF admin = None
        THEN Raise("create_team", "ValueError", "Admin user ID is required")
        ELSE IF ~UserExists(users, admin)
        THEN Raise("create_team", "ValueError", "Admin user does not exist")
        ELSE IF TeamNameTaken(teams, name)
        THEN Raise("create_team", "ValueError", "Team name must be unique")
        ELSE /\ teams' = Append(teams,
                    [id |-> team_id,
                     name |-> name,
                     description |-> description,
                     admin |-> admin,
                     members |-> InitialMembers(admin)])
             /\ Returned("create_team", team_id)
             /\ UNCHANGED <<users, boards, tasks>>

MembersWithAdminUnchanged(members, admin) == members

MembersWithAdminOnly(members, admin) == {admin}

MembersWithAdmin(members, admin) ==
    IF admin \notin members THEN members \cup {admin} ELSE members

UpdatedAlways(value, stored) == value

Updated(value, stored) == IF value # <<>> THEN value ELSE stored

update_team(team_id, name_in, description_in, admin_in) ==
    LET name == Strip(name_in)
        description == Strip(description_in)
        admin == admin_in
        team_index == TeamIndex(teams, team_id)
        team == teams[team_index]
    IN  IF team_id = None
        THEN Raise("update_team", "ValueError", "Team ID is required")
        ELSE IF name # <<>> /\ Len(name) > TEAM_NAME_LIMIT
        THEN Raise("update_team", "ValueError", "Team name must be <= 64 characters")
        ELSE IF description # <<>> /\ Len(description) > TEAM_DESCRIPTION_LIMIT
        THEN Raise("update_team", "ValueError", "Description must be <= 128 characters")
        ELSE IF team_index = 0
        THEN Raise("update_team", "ValueError", "Team not found")
        ELSE IF name # <<>> /\ TeamNameTakenByOther(teams, name, team_id)
        THEN Raise("update_team", "ValueError", "Team name must be unique")
        ELSE IF admin # None /\ ~UserExists(users, admin)
        THEN Raise("update_team", "ValueError", "Admin user does not exist")
        ELSE /\ teams' = [teams EXCEPT ![team_index] =
                    [id |-> team.id,
                     name |-> Updated(name, team.name),
                     description |-> Updated(description, team.description),
                     admin |-> Updated(admin, team.admin),
                     members |-> IF admin # None
                                 THEN MembersWithAdmin(team.members, admin)
                                 ELSE team.members]]
             /\ Returned("update_team", None)
             /\ UNCHANGED <<users, boards, tasks>>

LastMissing(user_list, user_ids) ==
    IF \E i \in 1..Len(user_ids) : ~UserExists(user_list, user_ids[i])
    THEN CHOOSE i \in 1..Len(user_ids) :
             /\ ~UserExists(user_list, user_ids[i])
             /\ \A j \in (i + 1)..Len(user_ids) : UserExists(user_list, user_ids[j])
    ELSE 0

FirstMissing(user_list, user_ids) ==
    IF \E i \in 1..Len(user_ids) : ~UserExists(user_list, user_ids[i])
    THEN CHOOSE i \in 1..Len(user_ids) :
             /\ ~UserExists(user_list, user_ids[i])
             /\ \A j \in 1..(i - 1) : UserExists(user_list, user_ids[j])
    ELSE 0

ExceedsLimitNever(new_members) == FALSE

ExceedsLimit(new_members) == Cardinality(new_members) > TEAM_MEMBER_LIMIT

add_users_to_team(team_id, user_ids) ==
    LET team_index == TeamIndex(teams, team_id)
        current_members == teams[team_index].members
        new_members == current_members \cup ToSet(user_ids)
    IN  IF team_id = None
        THEN Raise("add_users_to_team", "ValueError", "Team ID is required")
        ELSE IF FirstMissing(users, user_ids) # 0
        THEN RaiseNaming("add_users_to_team", "ValueError", "User does not exist",
                         user_ids[FirstMissing(users, user_ids)])
        ELSE IF team_index = 0
        THEN Raise("add_users_to_team", "ValueError", "Team not found")
        ELSE IF ExceedsLimit(new_members)
        THEN Raise("add_users_to_team", "ValueError",
                   "Cannot add users: team would exceed 50 member limit")
        ELSE /\ teams' = [teams EXCEPT ![team_index].members = new_members]
             /\ Returned("add_users_to_team", None)
             /\ UNCHANGED <<users, boards, tasks>>

RemovesAdminNever(admin_id, user_ids) == FALSE

RemovesAdmin(admin_id, user_ids) == Contains(user_ids, admin_id)

WithoutAll(current_members, user_ids) == {}

Without(current_members, user_ids) == current_members \ ToSet(user_ids)

remove_users_from_team(team_id, user_ids) ==
    LET team_index == TeamIndex(teams, team_id)
        current_members == teams[team_index].members
        admin_id == teams[team_index].admin
        new_members == Without(current_members, user_ids)
    IN  IF team_id = None
        THEN Raise("remove_users_from_team", "ValueError", "Team ID is required")
        ELSE IF team_index = 0
        THEN Raise("remove_users_from_team", "ValueError", "Team not found")
        ELSE IF RemovesAdmin(admin_id, user_ids)
        THEN Raise("remove_users_from_team", "ValueError",
                   "Cannot remove team admin from team")
        ELSE /\ teams' = [teams EXCEPT ![team_index].members = new_members]
             /\ Returned("remove_users_from_team", None)
             /\ UNCHANGED <<users, boards, tasks>>

(***************************************************************************)
(* concrete/board.py.  Every failure is a ValueError.                      *)
(***************************************************************************)
TeamExistsAlways(team_list, team_id) == TRUE

TeamExists(team_list, team_id) ==
    \E i \in 1..Len(team_list) : team_list[i].id = team_id

BoardIndex(board_list, board_id) ==
    IF \E i \in 1..Len(board_list) : board_list[i].id = board_id
    THEN CHOOSE i \in 1..Len(board_list) :
             /\ board_list[i].id = board_id
             /\ \A j \in 1..(i - 1) : board_list[j].id # board_id
    ELSE 0

BoardNameTakenAnyTeam(board_list, team_id, name) ==
    \E i \in 1..Len(board_list) : board_list[i].name = name

BoardNameTaken(board_list, team_id, name) ==
    \E i \in 1..Len(board_list) :
        board_list[i].team_id = team_id /\ board_list[i].name = name

StoreBoardOverwrite(board_list, new_board) == <<new_board>>

StoreBoard(board_list, new_board) == Append(board_list, new_board)

create_board(name_in, description_in, team_id, creation_time_in, now) ==
    LET name == Strip(name_in)
        description == Strip(description_in)
        creation_time == IF creation_time_in = None
                         THEN <<now>> ELSE creation_time_in
        board_id == Uuid("b", Len(boards) + 1)
    IN  IF name = <<>>
        THEN Raise("create_board", "ValueError", "Board name is required")
        ELSE IF Len(name) > BOARD_NAME_LIMIT
        THEN Raise("create_board", "ValueError", "Board name must be <= 64 characters")
        ELSE IF description # <<>> /\ Len(description) > BOARD_DESCRIPTION_LIMIT
        THEN Raise("create_board", "ValueError", "Description must be <= 128 characters")
        ELSE IF team_id = None
        THEN Raise("create_board", "ValueError", "Team ID is required")
        ELSE IF ~TeamExists(teams, team_id)
        THEN Raise("create_board", "ValueError", "Team ID does not exist")
        ELSE IF BoardNameTaken(boards, team_id, name)
        THEN Raise("create_board", "ValueError",
                   "Board name must be unique within the team")
        ELSE /\ boards' = StoreBoard(boards,
                    [id |-> board_id,
                     name |-> name,
                     team_id |-> team_id,
                     creation_time |-> creation_time,
                     status |-> "OPEN",
                     end_time |-> None])
             /\ Returned("create_board", board_id)
             /\ UNCHANGED <<users, teams, tasks>>

BoardTasksOfAnyBoard(task_list, board_id) == task_list

BoardTasks(task_list, board_id) ==
    SelectSeq(task_list, LAMBDA t : t.board_id = board_id)

IncompleteTasksIgnored(board_tasks) == <<>>

IncompleteTasks(board_tasks) ==
    SelectSeq(board_tasks, LAMBDA t : t.status # "COMPLETE")

ClosedUntimed(board, now) == [board EXCEPT !.status = "CLOSED"]

ClosedStillOpen(board, now) == [board EXCEPT !.end_time = <<now>>]

Closed(board, now) ==
    [board EXCEPT !.status = "CLOSED", !.end_time = <<now>>]

AlreadyClosedNever(board) == FALSE

AlreadyClosed(board) == board.status = "CLOSED"

close_board(board_id, now) ==
    LET board_index == BoardIndex(boards, board_id)
        board_tasks == BoardTasks(tasks, board_id)
    IN  IF board_id = None
        THEN Raise("close_board", "ValueError", "Board ID is required")
        ELSE IF board_index = 0
        THEN Raise("close_board", "ValueError", "Board not found")
        ELSE IF AlreadyClosed(boards[board_index])
        THEN Raise("close_board", "ValueError", "Board is already closed")
        ELSE IF IncompleteTasks(board_tasks) # <<>>
        THEN Raise("close_board", "ValueError",
                   "Cannot close board: not all tasks are complete")
        ELSE /\ boards' = [boards EXCEPT ![board_index] = Closed(@, now)]
             /\ Returned("close_board", None)
             /\ UNCHANGED <<users, teams, tasks>>

OpenBoardsOrClosed(board_list) == board_list

OpenBoards(board_list) ==
    SelectSeq(board_list, LAMBDA b : b.status = "OPEN")

AcceptsTasksAlways(board) == TRUE

AcceptsTasks(board) == board.status = "OPEN"

TitleTaken(board_tasks, title) ==
    \E i \in 1..Len(board_tasks) : board_tasks[i].title = title

add_task(title_in, description_in, user_id, board_id) ==
    LET title == Strip(title_in)
        description == Strip(description_in)
        board_index == BoardIndex(boards, board_id)
        open_boards == OpenBoards(boards)
        board == IF board_id # None
                 THEN boards[board_index]
                 ELSE open_boards[Len(open_boards)]
        task_id == Uuid("k", Len(tasks) + 1)
    IN  IF title = <<>>
        THEN Raise("add_task", "ValueError", "Task title is required")
        ELSE IF Len(title) > TASK_TITLE_LIMIT
        THEN Raise("add_task", "ValueError", "Task title must be <= 64 characters")
        ELSE IF description # <<>> /\ Len(description) > TASK_DESCRIPTION_LIMIT
        THEN Raise("add_task", "ValueError", "Description must be <= 128 characters")
        ELSE IF user_id = None
        THEN Raise("add_task", "ValueError", "User ID is required")
        ELSE IF board_id # None /\ board_index = 0
        THEN Raise("add_task", "ValueError", "Board not found")
        ELSE IF board_id # None /\ ~AcceptsTasks(board)
        THEN Raise("add_task", "ValueError", "Can only add tasks to OPEN boards")
        ELSE IF board_id = None /\ open_boards = <<>>
        THEN Raise("add_task", "ValueError", "No open boards available to add a task")
        ELSE IF TitleTaken(BoardTasks(tasks, board.id), title)
        THEN Raise("add_task", "ValueError",
                   "Task title must be unique within the board")
        ELSE /\ tasks' = Append(tasks,
                    [id |-> task_id,
                     title |-> title,
                     user_id |-> user_id,
                     board_id |-> board.id,
                     status |-> "OPEN"])
             /\ Returned("add_task", task_id)
             /\ UNCHANGED <<users, teams, boards>>

TaskIndex(task_list, task_id) ==
    IF \E i \in 1..Len(task_list) : task_list[i].id = task_id
    THEN CHOOSE i \in 1..Len(task_list) :
             /\ task_list[i].id = task_id
             /\ \A j \in 1..(i - 1) : task_list[j].id # task_id
    ELSE 0

WithStatusReassigned(task, status) ==
    [task EXCEPT !.status = status, !.user_id = None]

WithStatusUnlessComplete(task, status) ==
    IF task.status = "COMPLETE" THEN task ELSE [task EXCEPT !.status = status]

WithStatus(task, status) == [task EXCEPT !.status = status]

ValidStatusAlways(status) == TRUE

ValidStatus(status) == status \in VALID_TASK_STATUSES

update_task_status(task_id, status) ==
    LET task_index == TaskIndex(tasks, task_id)
    IN  IF task_id = None
        THEN Raise("update_task_status", "ValueError", "Task ID is required")
        ELSE IF ~ValidStatus(status)
        THEN Raise("update_task_status", "ValueError",
                   "Status must be one of: OPEN, IN_PROGRESS, COMPLETE")
        ELSE IF task_index = 0
        THEN Raise("update_task_status", "ValueError", "Task not found")
        ELSE /\ tasks' = [tasks EXCEPT ![task_index] = WithStatus(@, status)]
             /\ Returned("update_task_status", None)
             /\ UNCHANGED <<users, teams, boards>>

(***************************************************************************)
(* export_board writes a text file and returns its name; the model keeps   *)
(* the task summary of the file: the total and the count of each status.   *)
(***************************************************************************)
TallyOpen(task_counts, status) == [task_counts EXCEPT !["OPEN"] = @ + 1]

Tally(task_counts, status) == [task_counts EXCEPT ![status] = @ + 1]

RECURSIVE TaskCounts(_)
TaskCounts(board_tasks) ==
    IF board_tasks = <<>>
    THEN [s \in VALID_TASK_STATUSES |-> 0]
    ELSE Tally(TaskCounts(SubSeq(board_tasks, 1, Len(board_tasks) - 1)),
               board_tasks[Len(board_tasks)].status)

export_board(board_id) ==
    LET board_tasks == BoardTasks(tasks, board_id)
    IN  IF board_id = None
        THEN [exc |-> "ValueError", msg |-> "Board ID is required",
              total |-> 0, task_counts |-> <<>>]
        ELSE IF BoardIndex(boards, board_id) = 0
        THEN [exc |-> "ValueError", msg |-> "Board not found",
              total |-> 0, task_counts |-> <<>>]
        ELSE [exc |-> "none", msg |-> "",
              total |-> Len(board_tasks), task_counts |-> TaskCounts(board_tasks)]

(***************************************************************************)
(* concrete/views.py.  BaseAPIView.dispatch turns the outcome of the store *)
(* call into a response: ValueError (the class teams.py and board.py       *)
(* raise) is answered 400 with the message, every other exception class    *)
(* (those of utils/exceptions.py derive from Exception) 500 with a fixed   *)
(* text.                                                                   *)
(***************************************************************************)
IsValueError(exc) == exc = "ValueError"

CreatedOps == {"create_user", "create_team", "create_board", "add_task"}

dispatch(outcome) ==
    IF outcome.exc = "none"
    THEN [status |-> IF outcome.op \in CreatedOps THEN 201 ELSE 200, error |-> ""]
    ELSE IF IsValueError(outcome.exc)
    THEN [status |-> 400, error |-> outcome.msg]
    ELSE [status |-> 500, error |-> "Internal server error"]

(***************************************************************************)
(* Requests.  Each operation is called with the well-formed requests over  *)
(* a few names and ids (one id of each kind never exists), and with one    *)
(* request for each way of being malformed.                                *)
(***************************************************************************)
RECURSIVE DistinctLists(_, _)
DistinctLists(S, n) ==
    IF n = 0
    THEN {<<>>}
    ELSE {<<>>} \cup UNION {{<<x>> \o l : l \in DistinctLists(S \ {x}, n - 1)} : x \in S}

Long(limit) == Repeat("x", limit + 1)

UserNames == {<<"a">>, <<"b">>}

UserIds == {Uuid("u", 1), Uuid("u", 2), Uuid("u", 3)}

TeamNames == {<<"T", "1">>, <<"T", "2">>}

TeamIds == {Uuid("t", 1), Uuid("t", 2)}

NoTeamId == Uuid("t", 3)

BoardNames == {<<"S", "1">>, <<"S", "2">>}

BoardIds == {Uuid("b", 1), Uuid("b", 2)}

NoBoardId == Uuid("b", 3)

TaskTitles == {<<"t", "1">>}

TaskIds == {Uuid("k", 1), Uuid("k", 2)}

NoTaskId == Uuid("k", 3)

CreateUserRequests ==
    [name : UserNames,
     display_name : {<<>>, <<" ">>, Long(MAX_DISPLAY_NAME_LENGTH)}]
    \cup [name : {<<>>, <<" ", "a", " ">>, <<"a", "!">>, Long(MAX_NAME_LENGTH)},
          display_name : {<<>>}]

CreateTeamRequests ==
    [name : TeamNames, description : {<<>>}, admin : UserIds \cup {None}]
    \cup [name : {<<>>, Long(TEAM_NAME_LIMIT)},
          description : {<<>>}, admin : {Uuid("u", 1)}]
    \cup [name : TeamNames, description : {Long(TEAM_DESCRIPTION_LIMIT)},
          admin : {Uuid("u", 1)}]

UpdateTeamRequests ==
    [id : TeamIds, name : TeamNames \cup {<<>>}, description : {<<>>},
     admin : UserIds \cup {None}]
    \cup [id : {None, NoTeamId}, name : {<<>>}, description : {<<>>},
          admin : {Uuid("u", 1)}]
    \cup [id : {Uuid("t", 1)}, name : {Long(TEAM_NAME_LIMIT)},
          description : {<<>>}, admin : {None}]
    \cup [id : {Uuid("t", 1)}, name : {<<>>},
          description : {Long(TEAM_DESCRIPTION_LIMIT)}, admin : {None}]

TeamUsersRequests ==
    [id : TeamIds, users : DistinctLists(UserIds, MaxListLen)]
    \cup [id : {None, NoTeamId}, users : {<<Uuid("u", 1)>>}]

CreateBoardRequests ==
    [name : BoardNames, description : {<<>>},
     team_id : TeamIds \cup {None, NoTeamId}, creation_time : {<<1>>}]
    \cup [name : {<<>>, Long(BOARD_NAME_LIMIT)}, description : {<<>>},
          team_id : {Uuid("t", 1)}, creation_time : {<<1>>}]
    \cup [name : BoardNames, description : {Long(BOARD_DESCRIPTION_LIMIT)},
          team_id : {Uuid("t", 1)}, creation_time : {<<1>>}]

CloseBoardRequests == [id : BoardIds \cup {None, NoBoardId}]

AddTaskRequests ==
    [title : TaskTitles, description : {<<>>}, user_id : UserIds \cup {None},
     board_id : BoardIds \cup {None, NoBoardId}]
    \cup [title : {<<>>, Long(TASK_TITLE_LIMIT)}, description : {<<>>},
          user_id : {Uuid("u", 1)}, board_id : {Uuid("b", 1)}]
    \cup [title : TaskTitles, description : {Long(TASK_DESCRIPTION_LIMIT)},
          user_id : {Uuid("u", 1)}, board_id : {Uuid("b", 1)}]

UpdateTaskStatusRequests ==
    [id : TaskIds, status : VALID_TASK_STATUSES \cup {"DONE"}]
    \cup [id : {None, NoTaskId}, status : {"COMPLETE"}]

Entities == Len(users) + Len(teams) + Len(boards) + Len(tasks)

(***************************************************************************)
(* The stores after construction, and one step per store call.  A call     *)
(* that could create a record is made only while fewer than MaxEntities    *)
(* records exist.                                                          *)
(***************************************************************************)
Init ==
    /\ users = <<>>
    /\ teams = <<>>
    /\ boards = <<>>
    /\ tasks = <<>>
    /\ last = [op |-> "init", exc |-> "none", msg |-> "", id |-> None]
    /\ torn = {}
    /\ callers = [c \in Callers |-> Idle]

CreateUser ==
    /\ Entities < MaxEntities
    /\ \E r \in CreateUserRequests : create_user(r.name, r.display_name)

CreateTeam ==
    /\ Entities < MaxEntities
    /\ \E r \in CreateTeamRequests : create_team(r.name, r.description, r.admin)

UpdateTeam ==
    \E r \in UpdateTeamRequests :
        update_team(r.id, r.name, r.description, r.admin)

AddUsersToTeam ==
    \E r \in TeamUsersRequests : add_users_to_team(r.id, r.users)

RemoveUsersFromTeam ==
    \E r \in TeamUsersRequests : remove_users_from_team(r.id, r.users)

CreateBoard ==
    /\ Entities < MaxEntities
    /\ \E r \in CreateBoardRequests, now \in Times :
           create_board(r.name, r.description, r.team_id, r.creation_time, now)

CloseBoard ==
    \E r \in CloseBoardRequests, now \in Times : close_board(r.id, now)

AddTask ==
    /\ Entities < MaxEntities
    /\ \E r \in AddTaskRequests :
           add_task(r.title, r.description, r.user_id, r.board_id)

UpdateTaskStatus ==
    \E r \in UpdateTaskStatusRequests : update_task_status(r.id, r.status)

Next ==
    \/ CreateUser
    \/ CreateTeam
    \/ UpdateTeam
    \/ AddUsersToTeam
    \/ RemoveUsersFromTeam
    \/ CreateBoard
    \/ CloseBoard
    \/ AddTask
    \/ UpdateTaskStatus

Spec == Init /\ [][Next]_vars

(***************************************************************************)
(* The member limit.  TEAM_MEMBER_LIMIT is 50, so the limit is met only    *)
(* by a store of more than 50 users.  SpecCap starts from the users        *)
(* collection left by CapUsers successful create_user calls (names u01,    *)
(* u02, ...), with no team yet, and runs the team operations: one team is  *)
(* created by u01, users u02..u48 are added in one call, and the calls     *)
(* after that name users u49 and up (the last of them does not exist).     *)
(***************************************************************************)
Digits == <<"0", "1", "2", "3", "4", "5", "6", "7", "8", "9">>

CapName(i) == <<"u", Digits[(i \div 10) + 1], Digits[(i % 10) + 1]>>

CapUser(i) ==
    [id |-> Uuid("u", i), name |-> CapName(i), display_name |-> CapName(i)]

CapTail == {Uuid("u", i) : i \in (TEAM_MEMBER_LIMIT - 1)..(CapUsers + 1)}

CapBulk == [i \in 1..(TEAM_MEMBER_LIMIT - 3) |-> Uuid("u", i + 1)]

CapTeamUsersRequests ==
    [id : {Uuid("t", 1)},
     users : DistinctLists(CapTail, MaxListLen) \cup {CapBulk}]
    \cup [id : {NoTeamId}, users : {<<>>}]

CapUpdateTeamRequests ==
    [id : {Uuid("t", 1)}, name : {<<>>}, description : {<<>>}, admin : CapTail]

CapInit ==
    /\ users = [i \in 1..CapUsers |-> CapUser(i)]
    /\ teams = <<>>
    /\ boards = <<>>
    /\ tasks = <<>>
    /\ last = [op |-> "init", exc |-> "none", msg |-> "", id |-> None]
    /\ torn = {}
    /\ callers = [c \in Callers |-> Idle]

CapCreateTeam == create_team(<<"T", "1">>, <<>>, Uuid("u", 1))

CapUpdateTeam ==
    \E r \in CapUpdateTeamRequests :
        update_team(r.id, r.name, r.description, r.admin)

CapAddUsersToTeam ==
    \E r \in CapTeamUsersRequests : add_users_to_team(r.id, r.users)

CapRemoveUsersFromTeam ==
    \E r \in CapTeamUsersRequests : remove_users_from_team(r.id, r.users)

CapNext ==
    \/ CapCreateTeam
    \/ CapUpdateTeam
    \/ CapAddUsersToTeam
    \/ CapRemoveUsersFromTeam

SpecCap == CapInit /\ [][CapNext]_vars

(***************************************************************************)
(* Boards and tasks of two teams.  SpecBoards starts from the stores left  *)
(* by create_user("a") and two create_team calls by that user, and runs    *)
(* the board and task operations.  One board name and one task title are   *)
(* requested, so each team gets at most one board and each board at most   *)
(* one task; the clock reads any of BoardTimes, and a caller of            *)
(* create_board supplies no creation_time or the earliest one.             *)
(***************************************************************************)
BoardsCreateBoardRequests ==
    [name : {<<"S", "1">>}, description : {<<>>}, team_id : TeamIds,
     creation_time : {None, <<1>>}]

BoardsCloseBoardRequests == [id : BoardIds]

BoardsAddTaskRequests ==
    [title : TaskTitles, description : {<<>>}, user_id : {Uuid("u", 1)},
     board_id : BoardIds \cup {None}]

BoardsUpdateTaskStatusRequests == [id : TaskIds, status : VALID_TASK_STATUSES]

BoardsInit ==
    /\ users = <<[id |-> Uuid("u", 1), name |-> <<"a">>, display_name |-> <<"a">>]>>
    /\ teams = [i \in 1..2 |->
                   [id |-> Uuid("t", i),
                    name |-> <<"T", Digits[i + 1]>>,
                    description |-> <<>>,
                    admin |-> Uuid("u", 1),
                    members |-> {Uuid("u", 1)}]]
    /\ boards = <<>>
    /\ tasks = <<>>
    /\ last = [op |-> "init", exc |-> "none", msg |-> "", id |-> None]
    /\ torn = {}
    /\ callers = [c \in Callers |-> Idle]

BoardsCreateBoard ==
    \E r \in BoardsCreateBoardRequests, now \in BoardTimes :
        create_board(r.name, r.description, r.team_id, r.creation_time, now)

BoardsCloseBoard ==
    \E r \in BoardsCloseBoardRequests, now \in BoardTimes : close_board(r.id, now)

BoardsAddTask ==
    \E r \in BoardsAddTaskRequests :
        add_task(r.title, r.description, r.user_id, r.board_id)

BoardsUpdateTaskStatus ==
    \E r \in BoardsUpdateTaskStatusRequests : update_task_status(r.id, r.status)

BoardsNext ==
    \/ BoardsCreateBoard
    \/ BoardsCloseBoard
    \/ BoardsAddTask
    \/ BoardsUpdateTaskStatus

SpecBoards == BoardsInit /\ [][BoardsNext]_vars

(***************************************************************************)
(* Users.  SpecUsers starts from the empty stores and runs create_user     *)
(* and update_user.  An update names a user id (one never exists, one is   *)
(* not a UUID), a name (absent, blank, a stored name bare or padded with   *)
(* spaces) and a display name (absent, short, too long for create_user     *)
(* only, too long).                                                        *)
(***************************************************************************)
UpdateUserRequests ==
    [id : UserIds,
     name : UserNames \cup {<<>>, <<" ">>, <<" ", "a", " ">>},
     display_name : {<<>>, <<" ">>, <<"D">>, Long(MAX_DISPLAY_NAME_LENGTH),
                     Long(MAX_DISPLAY_NAME_UPDATE_LENGTH)}]
    \cup [id : {None, <<"x">>}, name : {<<>>}, display_name : {<<>>}]

UpdateUser ==
    \E r \in UpdateUserRequests : update_user(r.id, r.name, r.display_name)

UsersNext ==
    \/ CreateUser
    \/ UpdateUser

SpecUsers == Init /\ [][UsersNext]_vars

(***************************************************************************)
(* Users and teams.  SpecTeams starts from the empty stores and runs       *)
(* create_user, the team operations and get_user_teams, with no limit on   *)
(* the number of calls: two user names and two team names are requested,  *)
(* so at most two users and two teams are stored.                          *)
(***************************************************************************)
TeamsCreateUser ==
    \E r \in CreateUserRequests : create_user(r.name, r.display_name)

TeamsCreateTeam ==
    \E r \in CreateTeamRequests : create_team(r.name, r.description, r.admin)

GetUserTeams ==
    \E id \in UserIds \cup {None} :
        /\ last' = [op |-> "get_user_teams", exc |-> get_user_teams(id).exc,
                    msg |-> get_user_teams(id).msg, id |-> None]
        /\ UNCHANGED <<users, teams, boards, tasks, torn, callers>>

TeamsNext ==
    \/ TeamsCreateUser
    \/ TeamsCreateTeam
    \/ UpdateTeam
    \/ AddUsersToTeam
    \/ RemoveUsersFromTeam
    \/ GetUserTeams

SpecTeams == Init /\ [][TeamsNext]_vars

(***************************************************************************)
(* All three stores.  SpecStores starts from the empty stores and runs     *)
(* every operation that writes, with no limit on the number of calls.      *)
(* The requests are those of Spec that ask for the first name of each      *)
(* kind, so at most one user, one team, one board and one task are         *)
(* stored, and every other id requested is the id of nothing.              *)
(***************************************************************************)
StoresCreateUserRequests == {r \in CreateUserRequests : r.name # <<"b">>}

StoresCreateTeamRequests == {r \in CreateTeamRequests : r.name # <<"T", "2">>}

StoresUpdateTeamRequests == {r \in UpdateTeamRequests : r.name # <<"T", "2">>}

StoresCreateBoardRequests == {r \in CreateBoardRequests : r.name # <<"S", "2">>}

StoresCreateUser ==
    \E r \in StoresCreateUserRequests : create_user(r.name, r.display_name)

StoresCreateTeam ==
    \E r \in StoresCreateTeamRequests : create_team(r.name, r.description, r.admin)

StoresUpdateTeam ==
    \E r \in StoresUpdateTeamRequests :
        update_team(r.id, r.name, r.description, r.admin)

StoresCreateBoard ==
    \E r \in StoresCreateBoardRequests, now \in Times :
        create_board(r.name, r.description, r.team_id, r.creation_time, now)

StoresAddTask ==
    \E r \in AddTaskRequests :
        add_task(r.title, r.description, r.user_id, r.board_id)

StoresNext ==
    \/ StoresCreateUser
    \/ UpdateUser
    \/ StoresCreateTeam
    \/ StoresUpdateTeam
    \/ AddUsersToTeam
    \/ RemoveUsersFromTeam
    \/ StoresCreateBoard
    \/ CloseBoard
    \/ StoresAddTask
    \/ UpdateTaskStatus

SpecStores == Init /\ [][StoresNext]_vars

(***************************************************************************)
(* Team fields.  SpecFields starts from the empty stores, stores up to two *)
(* users and two teams, and asks update_team for every combination of a    *)
(* name, a description and an admin that is given, blank or left out.      *)
(***************************************************************************)
FieldsNext ==
    \/ \E name \in UserNames : create_user(name, <<>>)
    \/ \E name \in TeamNames : create_team(name, <<>>, Uuid("u", 1))
    \/ \E id \in {Uuid("t", 1), NoTeamId},
          name \in {<<>>, <<" ">>, <<"T", "2">>, <<"T", "3">>},
          description \in {<<>>, <<" ">>, <<"d">>},
          admin \in {None, Uuid("u", 2), Uuid("u", 3)} :
           update_team(id, name, description, admin)
    \/ \E user_ids \in {<<Uuid("u", 2)>>, <<Uuid("u", 3)>>} :
           add_users_to_team(Uuid("t", 1), user_ids)
    \/ \E id \in {Uuid("t", 1), NoTeamId},
          user_ids \in DistinctLists(UserIds, MaxListLen) :
           remove_users_from_team(id, user_ids)

SpecFields == Init /\ [][FieldsNext]_vars

(***************************************************************************)
(* Exports.  SpecExport starts like SpecBoards, stores one board for each  *)
(* team and up to two tasks on each board, moves the tasks between the     *)
(* statuses and exports the boards.                                        *)
(***************************************************************************)
ExportBoard ==
    \E id \in BoardIds \cup {None} :
        /\ last' = [op |-> "export_board", exc |-> export_board(id).exc,
                    msg |-> export_board(id).msg, id |-> None]
        /\ UNCHANGED <<users, teams, boards, tasks, torn, callers>>

ExportNext ==
    \/ \E team_id \in TeamIds, now \in Times :
           create_board(<<"S", "1">>, <<>>, team_id, <<1>>, now)
    \/ \E title \in {<<"t", "1">>, <<"t", "2">>}, board_id \in BoardIds :
           add_task(title, <<>>, Uuid("u", 1), board_id)
    \/ \E n \in 1..4, status \in VALID_TASK_STATUSES :
           update_task_status(Uuid("k", n), status)
    \/ ExportBoard

SpecExport == BoardsInit /\ [][ExportNext]_vars

(***************************************************************************)
(* SpecEntities makes the ten writing calls with few requests each, two of *)
(* them creating a user, so that a collection holds a record while         *)
(* another record is stored in it and every collection is filled.          *)
(***************************************************************************)
EntitiesNext ==
    \/ \E name \in UserNames : create_user(name, <<>>)
    \/ \E id \in {Uuid("u", 1), Uuid("u", 3)} : update_user(id, <<>>, <<"D">>)
    \/ \E admin \in {Uuid("u", 1), Uuid("u", 3)} :
           create_team(<<"T", "1">>, <<>>, admin)
    \/ \E id \in {Uuid("t", 1), NoTeamId} : update_team(id, <<>>, <<>>, Uuid("u", 2))
    \/ \E id \in {Uuid("t", 1), NoTeamId} : add_users_to_team(id, <<Uuid("u", 2)>>)
    \/ \E id \in {Uuid("t", 1), NoTeamId}, u \in {Uuid("u", 1), Uuid("u", 2)} :
           remove_users_from_team(id, <<u>>)
    \/ \E name \in BoardNames, team_id \in {Uuid("t", 1), NoTeamId}, now \in Times :
           create_board(name, <<>>, team_id, None, now)
    \/ \E id \in {Uuid("b", 1), NoBoardId}, now \in Times : close_board(id, now)
    \/ \E title \in TaskTitles, board_id \in {Uuid("b", 1), NoBoardId} :
           add_task(title, <<>>, Uuid("u", 1), board_id)
    \/ \E id \in {Uuid("k", 1), NoTaskId},
          status \in {"IN_PROGRESS", "COMPLETE", "DONE"} :
           update_task_status(id, status)

SpecEntities == Init /\ [][EntitiesNext]_vars

(***************************************************************************)
(* Concurrent calls.  A call is a load of each file it reads, the          *)
(* computation of what it will write, and a save of the one file it        *)
(* writes; there is no lock, so the steps of two callers interleave.       *)
(* user.py loads and saves through FileHandler, which turns a parse error  *)
(* into ValueError and any other error into IOError, and user.py in turn   *)
(* turns both into ValidationError; teams.py has its own load_json and     *)
(* save_json, whose errors reach the caller as they are.  A uuid4 drawn    *)
(* by caller c is numbered from 10 * c, apart from the other caller's.     *)
(***************************************************************************)
FileHandler_load_json(file, data, io_error) ==
    IF io_error THEN [ok |-> FALSE, val |-> <<>>, exc |-> "IOError"]
    ELSE IF file \in torn THEN [ok |-> FALSE, val |-> <<>>, exc |-> "ValueError"]
    ELSE [ok |-> TRUE, val |-> data, exc |-> "none"]

load_json(file, data, io_error) ==
    IF io_error THEN [ok |-> FALSE, val |-> <<>>, exc |-> "OSError"]
    ELSE IF file \in torn THEN [ok |-> FALSE, val |-> <<>>, exc |-> "JSONDecodeError"]
    ELSE [ok |-> TRUE, val |-> data, exc |-> "none"]

Finish(c, op, exc, msg, id, cause) ==
    /\ callers' = [callers EXCEPT ![c] =
                      [Idle EXCEPT !.pc = "done", !.op = op, !.cause = cause,
                                   !.out = [op |-> op, exc |-> exc, msg |-> msg, id |-> id]]]
    /\ last' = [op |-> op, exc |-> exc, msg |-> msg, id |-> id]

Computed(c, op, file, new, id) ==
    /\ callers' = [callers EXCEPT ![c] =
                      [Idle EXCEPT !.pc = "computed", !.op = op, !.file = file,
                                   !.new = new, !.id = id]]
    /\ UNCHANGED last

create_user_load(c, r, io_error) ==
    LET name == validate_name(r.name)
        display_name == validate_display_name(r.display_name, FALSE)
        db_data == FileHandler_load_json("users", users, io_error)
        user_id == Uuid("u", 10 * c + Len(db_data.val) + 1)
    IN  /\ callers[c].pc = "idle"
        /\ UNCHANGED <<users, teams, boards, tasks, torn>>
        /\ IF ~name.ok \/ ~display_name.ok
           THEN Finish(c, "create_user", "ValidationError",
                       "Failed to create user", None, "none")
           ELSE IF ~db_data.ok
           THEN Finish(c, "create_user", "ValidationError",
                       "Failed to create user", None, db_data.exc)
           ELSE IF NameTaken(db_data.val, name.val, None)
           THEN Finish(c, "create_user", "DuplicateResourceError",
                       "User name must be unique", None, "none")
           ELSE Computed(c, "create_user", "users",
                         Append(db_data.val,
                                [id |-> user_id,
                                 name |-> name.val,
                                 display_name |-> IF display_name.val # <<>>
                                                  THEN display_name.val
                                                  ELSE name.val]),
                         user_id)

add_users_to_team_check(c, r, io_error) ==
    LET users_data == load_json("users", users, io_error)
    IN  /\ callers[c].pc = "idle"
        /\ UNCHANGED <<users, teams, boards, tasks, torn>>
        /\ IF r.id = None
           THEN Finish(c, "add_users_to_team", "ValueError",
                       "Team ID is required", None, "none")
           ELSE IF ~users_data.ok
           THEN Finish(c, "add_users_to_team", users_data.exc, "", None,
                       users_data.exc)
           ELSE IF FirstMissing(users_data.val, r.users) # 0
           THEN Finish(c, "add_users_to_team", "ValueError", "User does not exist",
                       r.users[FirstMissing(users_data.val, r.users)], "none")
           ELSE /\ callers' = [callers EXCEPT ![c] =
                                 [Idle EXCEPT !.pc = "checked",
                                              !.op = "add_users_to_team", !.req = r]]
                /\ UNCHANGED last

add_users_to_team_load(c, io_error) ==
    LET r == callers[c].req
        db_data == load_json("teams", teams, io_error)
        team_index == TeamIndex(db_data.val, r.id)
        new_members == db_data.val[team_index].members \cup ToSet(r.users)
    IN  /\ callers[c].pc = "checked"
        /\ callers[c].op = "add_users_to_team"
        /\ UNCHANGED <<users, teams, boards, tasks, torn>>
        /\ IF ~db_data.ok
           THEN Finish(c, "add_users_to_team", db_data.exc, "", None, db_data.exc)
           ELSE IF team_index = 0
           THEN Finish(c, "add_users_to_team", "ValueError", "Team not found",
                       None, "none")
           ELSE IF ExceedsLimit(new_members)
           THEN Finish(c, "add_users_to_team", "ValueError",
                       "Cannot add users: team would exceed 50 member limit",
                       None, "none")
           ELSE Computed(c, "add_users_to_team", "teams",
                         [db_data.val EXCEPT ![team_index].members = new_members],
                         None)

Checked(c, op, req, new) ==
    /\ callers' = [callers EXCEPT ![c] =
                      [Idle EXCEPT !.pc = "checked", !.op = op, !.req = req,
                                   !.new = new]]
    /\ UNCHANGED last

update_team_load(c, r) ==
    LET name == Strip(r.name)
        description == Strip(r.description)
        admin == r.admin
        team_index == TeamIndex(teams, r.id)
        team == teams[team_index]
    IN  /\ callers[c].pc = "idle"
        /\ UNCHANGED <<users, teams, boards, tasks, torn>>
        /\ IF r.id = None
           THEN Finish(c, "update_team", "ValueError", "Team ID is required",
                       None, "none")
           ELSE IF name # <<>> /\ Len(name) > TEAM_NAME_LIMIT
           THEN Finish(c, "update_team", "ValueError",
                       "Team name must be <= 64 characters", None, "none")
           ELSE IF description # <<>> /\ Len(description) > TEAM_DESCRIPTION_LIMIT
           THEN Finish(c, "update_team", "ValueError",
                       "Description must be <= 128 characters", None, "none")
           ELSE IF team_index = 0
           THEN Finish(c, "update_team", "ValueError", "Team not found", None, "none")
           ELSE IF name # <<>> /\ TeamNameTakenByOther(teams, name, r.id)
           THEN Finish(c, "update_team", "ValueError", "Team name must be unique",
                       None, "none")
           ELSE IF admin # None /\ ~UserExists(users, admin)
           THEN Finish(c, "update_team", "ValueError", "Admin user does not exist",
                       None, "none")
           ELSE Computed(c, "update_team", "teams",
                         [teams EXCEPT ![team_index] =
                             [id |-> team.id,
                              name |-> Updated(name, team.name),
                              description |-> Updated(description, team.description),
                              admin |-> Updated(admin, team.admin),
                              members |-> IF admin # None
                                          THEN MembersWithAdmin(team.members, admin)
                                          ELSE team.members]],
                         None)

remove_users_from_team_load(c, r) ==
    LET team_index == TeamIndex(teams, r.id)
        current_members == teams[team_index].members
        admin_id == teams[team_index].admin
        new_members == Without(current_members, r.users)
    IN  /\ callers[c].pc = "idle"
        /\ UNCHANGED <<users, teams, boards, tasks, torn>>
        /\ IF r.id = None
           THEN Finish(c, "remove_users_from_team", "ValueError",
                       "Team ID is required", None, "none")
           ELSE IF team_index = 0
           THEN Finish(c, "remove_users_from_team", "ValueError", "Team not found",
                       None, "none")
           ELSE IF RemovesAdmin(admin_id, r.users)
           THEN Finish(c, "remove_users_from_team", "ValueError",
                       "Cannot remove team admin from team", None, "none")
           ELSE Computed(c, "remove_users_from_team", "teams",
                         [teams EXCEPT ![team_index].members = new_members], None)

add_task_load_boards(c, r) ==
    LET title == Strip(r.title)
        description == Strip(r.description)
        board_index == BoardIndex(boards, r.board_id)
        open_boards == OpenBoards(boards)
        board == IF r.board_id # None
                 THEN boards[board_index]
                 ELSE open_boards[Len(open_boards)]
    IN  /\ callers[c].pc = "idle"
        /\ UNCHANGED <<users, teams, boards, tasks, torn>>
        /\ IF title = <<>>
           THEN Finish(c, "add_task", "ValueError", "Task title is required",
                       None, "none")
           ELSE IF Len(title) > TASK_TITLE_LIMIT
           THEN Finish(c, "add_task", "ValueError",
                       "Task title must be <= 64 characters", None, "none")
           ELSE IF description # <<>> /\ Len(description) > TASK_DESCRIPTION_LIMIT
           THEN Finish(c, "add_task", "ValueError",
                       "Description must be <= 128 characters", None, "none")
           ELSE IF r.user_id = None
           THEN Finish(c, "add_task", "ValueError", "User ID is required",
                       None, "none")
           ELSE IF r.board_id # None /\ board_index = 0
           THEN Finish(c, "add_task", "ValueError", "Board not found", None, "none")
           ELSE IF r.board_id # None /\ ~AcceptsTasks(board)
           THEN Finish(c, "add_task", "ValueError",
                       "Can only add tasks to OPEN boards", None, "none")
           ELSE IF r.board_id = None /\ open_boards = <<>>
           THEN Finish(c, "add_task", "ValueError",
                       "No open boards available to add a task", None, "none")
           ELSE Checked(c, "add_task",
                        [title |-> title, user_id |-> r.user_id,
                         board_id |-> board.id], <<>>)

add_task_load_tasks(c) ==
    LET r == callers[c].req
        task_id == Uuid("k", 10 * c + Len(tasks) + 1)
    IN  /\ callers[c].pc = "checked"
        /\ callers[c].op = "add_task"
        /\ UNCHANGED <<users, teams, boards, tasks, torn>>
        /\ IF TitleTaken(BoardTasks(tasks, r.board_id), r.title)
           THEN Finish(c, "add_task", "ValueError",
                       "Task title must be unique within the board", None, "none")
           ELSE Computed(c, "add_task", "tasks",
                         Append(tasks,
                                [id |-> task_id,
                                 title |-> r.title,
                                 user_id |-> r.user_id,
                                 board_id |-> r.board_id,
                                 status |-> "OPEN"]),
                         task_id)

close_board_load_boards(c, board_id) ==
    /\ callers[c].pc = "idle"
    /\ UNCHANGED <<users, teams, boards, tasks, torn>>
    /\ IF board_id = None
       THEN Finish(c, "close_board", "ValueError", "Board ID is required",
                   None, "none")
       ELSE Checked(c, "close_board", [id |-> board_id], boards)

close_board_load_tasks(c, now) ==
    LET board_id == callers[c].req.id
        loaded == callers[c].new
        board_index == BoardIndex(loaded, board_id)
        board_tasks == BoardTasks(tasks, board_id)
    IN  /\ callers[c].pc = "checked"
        /\ callers[c].op = "close_board"
        /\ UNCHANGED <<users, teams, boards, tasks, torn>>
        /\ IF board_index = 0
           THEN Finish(c, "close_board", "ValueError", "Board not found",
                       None, "none")
           ELSE IF AlreadyClosed(loaded[board_index])
           THEN Finish(c, "close_board", "ValueError", "Board is already closed",
                       None, "none")
           ELSE IF IncompleteTasks(board_tasks) # <<>>
           THEN Finish(c, "close_board", "ValueError",
                       "Cannot close board: not all tasks are complete",
                       None, "none")
           ELSE Computed(c, "close_board", "boards",
                         [loaded EXCEPT ![board_index] = Closed(@, now)], None)

WrittenAfterStored(stored, new) ==
    stored \o SelectSeq(new, LAMBDA x : \A i \in 1..Len(stored) : stored[i].id # x.id)

Written(stored, new) == new

WriteFile(file, new) ==
    /\ users' = IF file = "users" THEN Written(users, new) ELSE users
    /\ teams' = IF file = "teams" THEN Written(teams, new) ELSE teams
    /\ boards' = IF file = "boards" THEN Written(boards, new) ELSE boards
    /\ tasks' = IF file = "tasks" THEN Written(tasks, new) ELSE tasks

SaveError(op) ==
    IF op \in {"create_user", "update_user"}
    THEN [exc |-> "ValidationError",
          msg |-> IF op = "create_user" THEN "Failed to create user"
                                        ELSE "Failed to update user",
          cause |-> "IOError"]
    ELSE [exc |-> "OSError", msg |-> "", cause |-> "OSError"]

save_json(c) ==
    /\ callers[c].pc = "computed"
    /\ WriteFile(callers[c].file, callers[c].new)
    /\ Finish(c, callers[c].op, "none", "", callers[c].id, "none")
    /\ UNCHANGED torn

save_json_open(c, io_error) ==
    /\ callers[c].pc = "computed"
    /\ UNCHANGED <<users, teams, boards, tasks>>
    /\ IF io_error
       THEN /\ Finish(c, callers[c].op, SaveError(callers[c].op).exc,
                      SaveError(callers[c].op).msg, None,
                      SaveError(callers[c].op).cause)
            /\ UNCHANGED torn
       ELSE /\ torn' = torn \cup {callers[c].file}
            /\ callers' = [callers EXCEPT ![c].pc = "writing"]
            /\ UNCHANGED last

save_json_dump(c) ==
    /\ callers[c].pc = "writing"
    /\ WriteFile(callers[c].file, callers[c].new)
    /\ torn' = torn \ {callers[c].file}
    /\ Finish(c, callers[c].op, "none", "", callers[c].id, "none")

(***************************************************************************)
(* Both specifications of concurrent calls start from the stores left by   *)
(* three create_user calls, a create_team call by the first user, an       *)
(* add_users_to_team call for the second user and a create_board call,     *)
(* and let each of the two callers make one call.  In SpecRace the call is *)
(* create_user, add_users_to_team, update_team, remove_users_from_team,    *)
(* add_task or close_board, a save is one step (the granularity of         *)
(* whole-file loads and saves) and no load or save fails.  update_team     *)
(* loads the teams and the users in one step: no request names a user      *)
(* that a concurrent create_user stores.  In SpecFiles the call is         *)
(* create_user or add_users_to_team, a save is two steps, open(path, "w")  *)
(* and json.dump, and a load or an open may fail with an I/O error.        *)
(***************************************************************************)
RaceCreateUserRequests ==
    [name : {<<"d">>, <<"e">>, <<"a">>, <<>>}, display_name : {<<>>}]

RaceTeamUsersRequests ==
    [id : {Uuid("t", 1)}, users : {<<Uuid("u", 2)>>, <<Uuid("u", 3)>>, <<Uuid("u", 4)>>}]
    \cup [id : {NoTeamId}, users : {<<Uuid("u", 2)>>}]

RaceInit ==
    /\ users = [i \in 1..3 |->
                   [id |-> Uuid("u", i),
                    name |-> <<<<"a", "b", "c">>[i]>>,
                    display_name |-> <<<<"a", "b", "c">>[i]>>]]
    /\ teams = <<[id |-> Uuid("t", 1),
                  name |-> <<"T", "1">>,
                  description |-> <<>>,
                  admin |-> Uuid("u", 1),
                  members |-> {Uuid("u", 1), Uuid("u", 2)}]>>
    /\ boards = <<[id |-> Uuid("b", 1),
                   name |-> <<"S", "1">>,
                   team_id |-> Uuid("t", 1),
                   creation_time |-> <<1>>,
                   status |-> "OPEN",
                   end_time |-> None]>>
    /\ tasks = <<>>
    /\ last = [op |-> "init", exc |-> "none", msg |-> "", id |-> None]
    /\ torn = {}
    /\ callers = [c \in Callers |-> Idle]

RaceNext ==
    \/ \E c \in Callers, r \in RaceCreateUserRequests : create_user_load(c, r, FALSE)
    \/ \E c \in Callers, r \in RaceTeamUsersRequests :
           add_users_to_team_check(c, r, FALSE)
    \/ \E c \in Callers : add_users_to_team_load(c, FALSE)
    \/ \E c \in Callers, admin \in {None, Uuid("u", 2), Uuid("u", 3), Uuid("u", 4)} :
           update_team_load(c, [id |-> Uuid("t", 1), name |-> <<>>,
                                description |-> <<>>, admin |-> admin])
    \/ \E c \in Callers, r \in RaceTeamUsersRequests \cup
                                [id : {Uuid("t", 1)}, users : {<<Uuid("u", 1)>>}] :
           remove_users_from_team_load(c, r)
    \/ \E c \in Callers, board_id \in {Uuid("b", 1), None} :
           add_task_load_boards(c, [title |-> <<"t", "1">>, description |-> <<>>,
                                    user_id |-> Uuid("u", 1), board_id |-> board_id])
    \/ \E c \in Callers : add_task_load_tasks(c)
    \/ \E c \in Callers : close_board_load_boards(c, Uuid("b", 1))
    \/ \E c \in Callers, now \in Times : close_board_load_tasks(c, now)
    \/ \E c \in Callers : save_json(c)

SpecRace == RaceInit /\ [][RaceNext]_vars

FilesNext ==
    \/ \E c \in Callers, r \in RaceCreateUserRequests, io_error \in BOOLEAN :
           create_user_load(c, r, io_error)
    \/ \E c \in Callers, r \in RaceTeamUsersRequests, io_error \in BOOLEAN :
           add_users_to_team_check(c, r, io_error)
    \/ \E c \in Callers, io_error \in BOOLEAN : add_users_to_team_load(c, io_error)
    \/ \E c \in Callers, io_error \in BOOLEAN : save_json_open(c, io_error)
    \/ \E c \in Callers : save_json_dump(c)

SpecFiles == RaceInit /\ [][FilesNext]_vars

(***************************************************************************)
(* Vocabulary of the properties.                                           *)
(***************************************************************************)
Failed(outcome) == outcome.exc # "none"

Succeeded(outcome, op) == outcome.op = op /\ outcome.exc = "none"

BoardHasIncompleteTask(board_id) ==
    \E i \in 1..Len(tasks) :
        tasks[i].board_id = board_id /\ tasks[i].status # "COMPLETE"

(***************************************************************************)
(* C1.  Every team's admin is one of the team's members, in every state    *)
(* reached by create_team, update_team, add_users_to_team and              *)
(* remove_users_from_team calls, successful or failing.                    *)
(***************************************************************************)
C1_AdminIsMember ==
    \A i \in 1..Len(teams) : teams[i].admin \in teams[i].members

\* update_team has made the second user admin of a team created by the first.
C1_Witness ==
    /\ Succeeded(last, "update_team")
    /\ \E i \in 1..Len(teams) :
           /\ teams[i].admin = Uuid("u", 2)
           /\ teams[i].members = {Uuid("u", 1), Uuid("u", 2)}

(***************************************************************************)
(* C2.  As claimed: every stored task's user_id names a user of the users  *)
(* collection (add_task with an unknown user_id persists nothing).         *)
(* add_task never reads the users collection, so this fails.               *)
(***************************************************************************)
C2_TaskUserExists ==
    \A i \in 1..Len(tasks) : UserExists(users, tasks[i].user_id)

(***************************************************************************)
(* C3.  close_board on a board with a task that is not COMPLETE fails and  *)
(* leaves the boards collection (status and end_time) as it was: a         *)
(* close_board step that does otherwise is no call on such a board.        *)
(***************************************************************************)
C3_CloseRejectsIncomplete ==
    [][last'.op = "close_board" =>
         \/ Failed(last') /\ boards' = boards
         \/ \A r \in CloseBoardRequests, now \in Times :
                ~(/\ BoardIndex(boards, r.id) # 0
                  /\ BoardHasIncompleteTask(r.id)
                  /\ close_board(r.id, now))]_vars

\* close_board was refused on an OPEN board because of an unfinished task.
C3_Witness ==
    /\ last.op = "close_board"
    /\ last.msg = "Cannot close board: not all tasks are complete"
    /\ \E i \in 1..Len(boards) :
           boards[i].status = "OPEN" /\ BoardHasIncompleteTask(boards[i].id)

(***************************************************************************)
(* C4.  close_board on an existing OPEN board whose tasks are all COMPLETE *)
(* (none at all included) succeeds; the board is then CLOSED and its       *)
(* end_time is set.                                                        *)
(***************************************************************************)
C4_CloseSucceeds ==
    [][last'.op = "close_board" =>
         \A r \in CloseBoardRequests, now \in Times :
             (/\ BoardIndex(boards, r.id) # 0
              /\ boards[BoardIndex(boards, r.id)].status = "OPEN"
              /\ ~BoardHasIncompleteTask(r.id)
              /\ close_board(r.id, now))
             => (/\ Succeeded(last', "close_board")
                 /\ boards'[BoardIndex(boards, r.id)].status = "CLOSED"
                 /\ boards'[BoardIndex(boards, r.id)].end_time # None)]_vars

\* close_board has just closed a board that owns a (COMPLETE) task.
C4_Witness ==
    /\ Succeeded(last, "close_board")
    /\ \E i \in 1..Len(boards), k \in 1..Len(tasks) :
           /\ boards[i].status = "CLOSED"
           /\ tasks[k].board_id = boards[i].id
           /\ tasks[k].status = "COMPLETE"

(***************************************************************************)
(* C5.  A board that is CLOSED is still stored, and still CLOSED, after    *)
(* any step.                                                               *)
(***************************************************************************)
C5_ClosedStaysClosed ==
    [][\A i \in 1..Len(boards) :
          boards[i].status = "CLOSED"
          => (/\ i <= Len(boards')
              /\ boards'[i].id = boards[i].id
              /\ boards'[i].status = "CLOSED")]_vars

\* A task of a CLOSED board was put back to OPEN, and the board is still CLOSED.
C5_Witness ==
    /\ Succeeded(last, "update_task_status")
    /\ \E i \in 1..Len(boards), k \in 1..Len(tasks) :
           /\ boards[i].status = "CLOSED"
           /\ tasks[k].board_id = boards[i].id
           /\ tasks[k].status = "OPEN"

(***************************************************************************)
(* C6.  add_task naming a CLOSED board fails with the validation error of  *)
(* board.py (a Python ValueError, which is what the module raises for      *)
(* every rejected request) and stores no task: an add_task step that does  *)
(* otherwise is no call naming a CLOSED board.                             *)
(***************************************************************************)
C6_AddTaskClosedBoardFails ==
    [][last'.op = "add_task" =>
         \/ last'.exc = "ValueError" /\ tasks' = tasks
         \/ \A r \in AddTaskRequests :
                ~(/\ BoardIndex(boards, r.board_id) # 0
                  /\ boards[BoardIndex(boards, r.board_id)].status = "CLOSED"
                  /\ add_task(r.title, r.description, r.user_id, r.board_id))]_vars

\* add_task was refused because the board it named is CLOSED.
C6_Witness ==
    /\ last.op = "add_task"
    /\ last.msg = "Can only add tasks to OPEN boards"
    /\ \E i \in 1..Len(boards) : boards[i].status = "CLOSED"

(***************************************************************************)
(* C7.  As claimed: every team has at most TEAM_MEMBER_LIMIT (50) members  *)
(* in every reachable state.  update_team adds a new admin to a full team  *)
(* without looking at the limit, so this fails.                            *)
(***************************************************************************)
C7_TeamWithinLimit ==
    \A i \in 1..Len(teams) : Cardinality(teams[i].members) <= TEAM_MEMBER_LIMIT

(***************************************************************************)
(* C8.  add_users_to_team whose resulting member set (the members united   *)
(* with the supplied ids) has more than 50 elements fails and leaves the   *)
(* teams collection as it was: a step that does otherwise is no such call. *)
(***************************************************************************)
C8_AddBeyondLimitFails ==
    [][last'.op = "add_users_to_team" =>
         \/ Failed(last') /\ teams' = teams
         \/ \A r \in CapTeamUsersRequests :
                ~(/\ TeamIndex(teams, r.id) # 0
                  /\ Cardinality(teams[TeamIndex(teams, r.id)].members
                                 \cup ToSet(r.users)) > TEAM_MEMBER_LIMIT
                  /\ add_users_to_team(r.id, r.users))]_vars

\* add_users_to_team was refused on a team of exactly 50 members.
C8_Witness ==
    /\ last.op = "add_users_to_team"
    /\ last.msg = "Cannot add users: team would exceed 50 member limit"
    /\ \E i \in 1..Len(teams) :
           Cardinality(teams[i].members) = TEAM_MEMBER_LIMIT

(***************************************************************************)
(* C9.  remove_users_from_team whose list holds the team's admin fails and *)
(* removes nobody, the teams collection is as it was: a step that does     *)
(* otherwise is no call whose list holds the admin.                        *)
(***************************************************************************)
C9_RemoveAdminFails ==
    [][last'.op = "remove_users_from_team" =>
         \/ Failed(last') /\ teams' = teams
         \/ \A r \in TeamUsersRequests :
                ~(/\ TeamIndex(teams, r.id) # 0
                  /\ Contains(r.users, teams[TeamIndex(teams, r.id)].admin)
                  /\ remove_users_from_team(r.id, r.users))]_vars

\* The removal of the admin was refused on a team that has another member.
C9_Witness ==
    /\ last.op = "remove_users_from_team"
    /\ last.msg = "Cannot remove team admin from team"
    /\ \E i \in 1..Len(teams) : Cardinality(teams[i].members) = 2

(***************************************************************************)
(* C10.  As claimed: create_user with the name of an existing user fails   *)
(* with DuplicateResourceError and adds no user.  The display_name is      *)
(* validated before the name is looked up, so with an oversized            *)
(* display_name the failure is a ValidationError instead.                  *)
(***************************************************************************)
UserNamed(name) == \E i \in 1..Len(users) : users[i].name = name

C10_DuplicateAlwaysDuplicateError ==
    [][last'.op = "create_user" =>
         \A r \in CreateUserRequests :
             (UserNamed(r.name) /\ create_user(r.name, r.display_name))
             => (last'.exc = "DuplicateResourceError" /\ users' = users)]_vars

(***************************************************************************)
(* C10, amended.  No two stored users have the same name; create_user      *)
(* with the name of an existing user fails and adds no user, with          *)
(* DuplicateResourceError when the display_name is valid (at most 64       *)
(* characters once stripped) and with ValidationError when it is not.      *)
(***************************************************************************)
C10_UniqueUserNames ==
    /\ [](\A i, j \in 1..Len(users) :
             users[i].name = users[j].name => i = j)
    /\ [][last'.op = "create_user" =>
            \A r \in CreateUserRequests :
                (UserNamed(r.name) /\ create_user(r.name, r.display_name))
                => (/\ users' = users
                    /\ last'.exc =
                           IF validate_display_name(r.display_name, FALSE).ok
                           THEN "DuplicateResourceError"
                           ELSE "ValidationError")]_vars

\* A second create_user with a stored name failed with DuplicateResourceError.
C10_Witness ==
    /\ last.op = "create_user"
    /\ last.exc = "DuplicateResourceError"
    /\ users # <<>>

(***************************************************************************)
(* C11.  Board names are unique within a team and not across teams: a      *)
(* create_board call whose name is already the name of a board of the      *)
(* same team, OPEN or CLOSED, fails and adds no board, and a call whose    *)
(* name is used only by boards of other teams succeeds and appends a       *)
(* board of that name to the requested team.                               *)
(***************************************************************************)
BoardOfTeamNamed(team_id, name) ==
    \E i \in 1..Len(boards) :
        boards[i].team_id = team_id /\ boards[i].name = name

BoardElsewhereNamed(team_id, name) ==
    \E i \in 1..Len(boards) :
        boards[i].team_id # team_id /\ boards[i].name = name

C11_BoardNameUniquePerTeam ==
    [][last'.op = "create_board" =>
         \A r \in BoardsCreateBoardRequests, now \in BoardTimes :
             create_board(r.name, r.description, r.team_id, r.creation_time, now)
             => /\ BoardOfTeamNamed(r.team_id, Strip(r.name))
                      => Failed(last') /\ boards' = boards
                /\ (/\ ~BoardOfTeamNamed(r.team_id, Strip(r.name))
                    /\ BoardElsewhereNamed(r.team_id, Strip(r.name)))
                      => /\ Succeeded(last', "create_board")
                         /\ Len(boards') = Len(boards) + 1
                         /\ SubSeq(boards', 1, Len(boards)) = boards
                         /\ boards'[Len(boards')].team_id = r.team_id
                         /\ boards'[Len(boards')].name = Strip(r.name)]_vars

C11_Witness ==
    /\ last.op = "create_board"
    /\ last.msg = "Board name must be unique within the team"
    /\ Len(boards) = 2
    /\ boards[1].name = boards[2].name
    /\ boards[1].team_id # boards[2].team_id
    /\ boards[1].status = "CLOSED"
    /\ boards[2].status = "CLOSED"

(***************************************************************************)
(* C12.  Task titles are unique within a board and not across boards: an   *)
(* add_task call whose title is already the title of a task of the board   *)
(* it resolves to (the board named, or the last OPEN board when none is    *)
(* named) fails and adds no task, and a call whose title is used only on   *)
(* other boards, resolving to an OPEN board, succeeds and appends a task   *)
(* of that title to the resolved board.                                    *)
(***************************************************************************)
TaskOfBoardTitled(board_id, title) ==
    \E i \in 1..Len(tasks) :
        tasks[i].board_id = board_id /\ tasks[i].title = title

TaskElsewhereTitled(board_id, title) ==
    \E i \in 1..Len(tasks) :
        tasks[i].board_id # board_id /\ tasks[i].title = title

ResolvedBoardId(board_id) ==
    IF board_id # None THEN board_id
    ELSE IF OpenBoards(boards) = <<>> THEN None
    ELSE OpenBoards(boards)[Len(OpenBoards(boards))].id

C12_TaskTitleUniquePerBoard ==
    [][last'.op = "add_task" =>
         \A r \in BoardsAddTaskRequests :
             add_task(r.title, r.description, r.user_id, r.board_id)
             => LET resolved == ResolvedBoardId(r.board_id)
                IN  /\ TaskOfBoardTitled(resolved, Strip(r.title))
                          => Failed(last') /\ tasks' = tasks
                    /\ (/\ BoardIndex(boards, resolved) # 0
                        /\ boards[BoardIndex(boards, resolved)].status = "OPEN"
                        /\ ~TaskOfBoardTitled(resolved, Strip(r.title))
                        /\ TaskElsewhereTitled(resolved, Strip(r.title)))
                          => /\ Succeeded(last', "add_task")
                             /\ Len(tasks') = Len(tasks) + 1
                             /\ SubSeq(tasks', 1, Len(tasks)) = tasks
                             /\ tasks'[Len(tasks')].board_id = resolved
                             /\ tasks'[Len(tasks')].title = Strip(r.title)]_vars

C12_Witness ==
    /\ last.op = "add_task"
    /\ last.msg = "Task title must be unique within the board"
    /\ Len(tasks) = 2
    /\ tasks[1].title = tasks[2].title
    /\ tasks[1].board_id # tasks[2].board_id

(***************************************************************************)
(* C13 as stated.  update_user of an existing user fails with              *)
(* ValidationError, leaving the users unchanged, when the name supplied    *)
(* differs from the stored name, and succeeds when the name supplied is    *)
(* the stored name or is absent.                                           *)
(***************************************************************************)
C13_SuppliedNameDecides ==
    [][last'.op = "update_user" =>
         \A r \in UpdateUserRequests :
             (UserIndex(users, r.id) # 0 /\ update_user(r.id, r.name, r.display_name))
             => LET stored == users[UserIndex(users, r.id)].name
                IN  /\ (r.name # <<>> /\ r.name # stored)
                          => last'.exc = "ValidationError" /\ users' = users
                    /\ (r.name = <<>> \/ r.name = stored)
                          => Succeeded(last', "update_user")]_vars

(***************************************************************************)
(* C13.  No update_user call changes the id or the name of a user or the   *)
(* number of users.  With the supplied name stripped of surrounding        *)
(* whitespace: update_user of an existing user fails with ValidationError, *)
(* leaving the users (display_name included) unchanged, when the stripped  *)
(* name is non-empty and differs from the stored name; it succeeds when    *)
(* the stripped name is empty or the stored name and the stripped display  *)
(* name has at most MAX_DISPLAY_NAME_UPDATE_LENGTH characters, and fails   *)
(* with ValidationError, leaving the users unchanged, when it has more.    *)
(***************************************************************************)
C13_NameNeverChanges ==
    [][last'.op = "update_user" =>
         /\ Len(users') = Len(users)
         /\ \A i \in 1..Len(users) :
                users'[i].id = users[i].id /\ users'[i].name = users[i].name
         /\ \A r \in UpdateUserRequests :
                (UserIndex(users, r.id) # 0 /\ update_user(r.id, r.name, r.display_name))
                => LET stored == users[UserIndex(users, r.id)].name
                       name == Strip(r.name)
                       fits == Len(Strip(r.display_name)) <= MAX_DISPLAY_NAME_UPDATE_LENGTH
                   IN  /\ (name # <<>> /\ name # stored)
                             => last'.exc = "ValidationError" /\ users' = users
                       /\ ((name = <<>> \/ name = stored) /\ fits)
                             => Succeeded(last', "update_user")
                       /\ ~fits
                             => last'.exc = "ValidationError" /\ users' = users]_vars

C13_Witness ==
    /\ last.op = "update_user"
    /\ last.msg = "User name cannot be updated"
    /\ \E i \in 1..Len(users) : users[i].display_name = <<"D">>

(***************************************************************************)
(* C14.  close_board on a board that is already CLOSED fails (ValueError,  *)
(* the validation failure of board.py) and changes no board, whatever the  *)
(* clock reads at the second call; and no step of any operation changes    *)
(* the end_time of a CLOSED board, so it keeps the value stamped by the    *)
(* call that closed it.                                                    *)
(***************************************************************************)
C14_SecondCloseFails ==
    [][/\ \A i \in 1..Len(boards) :
              boards[i].status = "CLOSED"
              => /\ Len(boards') >= i
                 /\ boards'[i].end_time = boards[i].end_time
       /\ last'.op = "close_board" =>
              \A r \in BoardsCloseBoardRequests, now \in BoardTimes :
                  (/\ BoardIndex(boards, r.id) # 0
                   /\ boards[BoardIndex(boards, r.id)].status = "CLOSED"
                   /\ close_board(r.id, now))
                  => /\ last'.exc = "ValueError"
                     /\ last'.msg = "Board is already closed"
                     /\ boards' = boards]_vars

C14_Witness ==
    /\ last.op = "close_board"
    /\ last.msg = "Board is already closed"
    /\ \E i \in 1..Len(boards) :
           boards[i].status = "CLOSED" /\ boards[i].end_time = <<1>>

(***************************************************************************)
(* C15.  update_task_status of an existing task with a status among OPEN,  *)
(* IN_PROGRESS and COMPLETE succeeds and stores exactly that status,       *)
(* whatever the task's current status and whether its board is OPEN or     *)
(* CLOSED.  The witness is a CLOSED board owning a task that such a call   *)
(* has just moved to IN_PROGRESS.                                          *)
(***************************************************************************)
C15_AnyStatusChangeSucceeds ==
    [][last'.op = "update_task_status" =>
         \A r \in BoardsUpdateTaskStatusRequests :
             (/\ TaskIndex(tasks, r.id) # 0
              /\ r.status \in {"OPEN", "IN_PROGRESS", "COMPLETE"}
              /\ update_task_status(r.id, r.status))
             => /\ Succeeded(last', "update_task_status")
                /\ Len(tasks') = Len(tasks)
                /\ \A k \in 1..Len(tasks) :
                       IF tasks[k].id = r.id
                       THEN tasks'[k] = [tasks[k] EXCEPT !.status = r.status]
                       ELSE tasks'[k] = tasks[k]]_vars

C15_Witness ==
    /\ Succeeded(last, "update_task_status")
    /\ \E i \in 1..Len(boards), k \in 1..Len(tasks) :
           /\ boards[i].status = "CLOSED"
           /\ tasks[k].board_id = boards[i].id
           /\ tasks[k].status = "IN_PROGRESS"

LastStoredOpenBoard(i) ==
    /\ boards[i].status = "OPEN"
    /\ \A j \in (i + 1)..Len(boards) : boards[j].status # "OPEN"

C17_AddUsersAllOrNothing ==
    [][last'.op = "add_users_to_team" =>
         \A r \in TeamUsersRequests :
             (/\ r.id # None
              /\ \E k \in 1..Len(r.users) : ~UserExists(users, r.users[k])
              /\ add_users_to_team(r.id, r.users))
             => /\ last'.exc = "ValueError"
                /\ last'.msg = "User does not exist"
                /\ \E k \in 1..Len(r.users) :
                       /\ ~UserExists(users, r.users[k])
                       /\ \A j \in 1..(k - 1) : UserExists(users, r.users[j])
                       /\ last'.id = r.users[k]
                /\ teams' = teams]_vars

\* A team exists, users 2 and 3 do not, and the call was refused quoting user 2.
C17_Witness ==
    /\ last.op = "add_users_to_team"
    /\ last.msg = "User does not exist"
    /\ last.id = Uuid("u", 2)
    /\ Len(users) = 1
    /\ Len(teams) >= 1

(***************************************************************************)
(* C18.  In every reachable state the admin of every team and every        *)
(* member of every team is the id of a stored user; and create_team and    *)
(* update_team calls naming as admin an id of no user, and                 *)
(* add_users_to_team calls listing an id of no user, fail and change no    *)
(* team.                                                                   *)
(***************************************************************************)
IsUser(id) == \E k \in 1..Len(users) : users[k].id = id

TeamUsersAreUsers ==
    \A i \in 1..Len(teams) :
        /\ IsUser(teams[i].admin)
        /\ \A m \in teams[i].members : IsUser(m)

StrangersRejected ==
    /\ last'.op = "create_team" =>
           \A r \in CreateTeamRequests :
               (/\ r.admin # None
                /\ ~IsUser(r.admin)
                /\ create_team(r.name, r.description, r.admin))
               => Failed(last') /\ teams' = teams
    /\ last'.op = "update_team" =>
           \A r \in UpdateTeamRequests :
               (/\ r.admin # None
                /\ ~IsUser(r.admin)
                /\ update_team(r.id, r.name, r.description, r.admin))
               => Failed(last') /\ teams' = teams
    /\ last'.op = "add_users_to_team" =>
           \A r \in TeamUsersRequests :
               (/\ \E k \in 1..Len(r.users) : ~IsUser(r.users[k])
                /\ add_users_to_team(r.id, r.users))
               => Failed(last') /\ teams' = teams

C18_TeamUsersExist == []TeamUsersAreUsers /\ [][StrangersRejected]_vars

C18_Witness ==
    /\ last.op = "update_team"
    /\ last.msg = "Admin user does not exist"
    /\ \E i \in 1..Len(teams) : Cardinality(teams[i].members) = 2

(***************************************************************************)
(* C19.  In every reachable state no two teams have the same name; a       *)
(* create_team call whose name is the name of a team, and an update_team   *)
(* call whose name is the name of a team other than the one it updates,    *)
(* fail and change no team; and an update_team call supplying the name     *)
(* the team already has (with a description within the limit and no admin  *)
(* or an existing one) succeeds and leaves the name as it is.              *)
(***************************************************************************)
TeamNamesDistinct ==
    \A i, j \in 1..Len(teams) : teams[i].name = teams[j].name => i = j

TeamElsewhereNamed(team_id, name) ==
    \E i \in 1..Len(teams) : teams[i].name = name /\ teams[i].id # team_id

TakenNamesRejected ==
    /\ last'.op = "create_team" =>
           \A r \in CreateTeamRequests :
               (/\ TeamElsewhereNamed(None, Strip(r.name))
                /\ create_team(r.name, r.description, r.admin))
               => Failed(last') /\ teams' = teams
    /\ last'.op = "update_team" =>
           \A r \in UpdateTeamRequests :
               update_team(r.id, r.name, r.description, r.admin)
               => /\ TeamElsewhereNamed(r.id, Strip(r.name))
                        => Failed(last') /\ teams' = teams
                  /\ (/\ TeamIndex(teams, r.id) # 0
                      /\ Strip(r.name) = teams[TeamIndex(teams, r.id)].name
                      /\ Len(Strip(r.description)) <= TEAM_DESCRIPTION_LIMIT
                      /\ r.admin # None => IsUser(r.admin))
                        => /\ Succeeded(last', "update_team")
                           /\ teams'[TeamIndex(teams, r.id)].name = Strip(r.name)

C19_TeamNamesUnique == []TeamNamesDistinct /\ [][TakenNamesRejected]_vars

C19_Witness ==
    /\ last.op = "update_team"
    /\ last.msg = "Team name must be unique"
    /\ Len(teams) = 2

(***************************************************************************)
(* C20.  An update_team call that supplies an admin and succeeds supplied  *)
(* the id of a stored user; it sets the team's admin to that id and the    *)
(* team's members to the previous members together with that id, so the    *)
(* previous admin is still a member; and it changes no other team.         *)
(***************************************************************************)
C20_NewAdminJoinsMembers ==
    [][last'.op = "update_team" =>
         \/ Failed(last')
         \/ \A r \in UpdateTeamRequests :
                (r.admin # None /\ update_team(r.id, r.name, r.description, r.admin))
                => LET i == TeamIndex(teams, r.id)
                   IN  /\ IsUser(r.admin)
                       /\ Len(teams') = Len(teams)
                       /\ teams'[i].admin = r.admin
                       /\ teams'[i].members = teams[i].members \cup {r.admin}
                       /\ teams[i].admin \in teams'[i].members
                       /\ \A j \in 1..Len(teams) : j # i => teams'[j] = teams[j]]_vars

\* User 2 was made admin of the team user 1 created; user 1 is still a member.
C20_Witness ==
    /\ Succeeded(last, "update_team")
    /\ Len(users) = 2
    /\ Len(teams) = 1
    /\ teams[1].admin = Uuid("u", 2)
    /\ teams[1].members = {Uuid("u", 1), Uuid("u", 2)}

(***************************************************************************)
(* C21.  A call of any store operation that fails (raises) leaves the      *)
(* users, teams, boards and tasks collections exactly as they were: every  *)
(* raise of an operation comes before its one save.                        *)
(***************************************************************************)
C21_FailureChangesNothing ==
    [][Failed(last') =>
         /\ users' = users
         /\ teams' = teams
         /\ boards' = boards
         /\ tasks' = tasks]_vars

\* Every collection holds a record, and the last call (closing a board
\* whose task is not complete) failed.
C21_Witness ==
    /\ Failed(last)
    /\ last.op = "close_board"
    /\ Len(users) = 1
    /\ Len(teams) = 1
    /\ Len(boards) = 1
    /\ Len(tasks) = 1

(***************************************************************************)
(* C22.  The response to a store call that raised ValidationError,         *)
(* ResourceNotFoundError or DuplicateResourceError (or ValueError, the     *)
(* class teams.py and board.py raise for the same failures) has a 4xx      *)
(* status and carries the exception's message.                             *)
(***************************************************************************)
C22_ClientErrorsAnswered4xx ==
    last.exc \in {"ValidationError", "ResourceNotFoundError",
                  "DuplicateResourceError", "ValueError"}
    => /\ dispatch(last).status \in 400..499
       /\ dispatch(last).error = last.msg

(***************************************************************************)
(* C23: a failure of the load or of the save of a call (an I/O error, or   *)
(* stored content that does not parse) never reaches the caller as a       *)
(* ValidationError, a ResourceNotFoundError or a DuplicateResourceError.   *)
(* Violated: create_user catches every exception of its load and of its    *)
(* save and raises ValidationError("Failed to create user") in its place.  *)
(***************************************************************************)
C23_PersistenceFailureNotClientError ==
    \A c \in Callers :
        callers[c].cause # "none" =>
            callers[c].out.exc \notin {"ValidationError", "ResourceNotFoundError",
                                       "DuplicateResourceError"}

(***************************************************************************)
(* C24: a load that runs while a save of the same file is in progress      *)
(* finds the file whole, so no call ends on a parse error of a file that   *)
(* no fault has damaged.  Violated: save_json opens the file with mode     *)
(* "w", which empties it, and writes the content afterwards; a load        *)
(* between the two reads an empty file.                                    *)
(***************************************************************************)
C24_LoadNeverSeesTornFile ==
    \A c \in Callers : callers[c].cause \notin {"ValueError", "JSONDecodeError"}

(***************************************************************************)
(* C25: a save replaces the file by exactly the content its caller         *)
(* computed from the caller's own load, whatever was saved in between, so  *)
(* with two callers a lost update is reachable (C25_Witness): both         *)
(* create_user calls return an id and one of the ids is not in users.      *)
(***************************************************************************)
C25_SaveReplacesWholeFile ==
    [][\A c \in Callers :
          (callers[c].pc = "computed" /\ callers'[c].pc = "done") =>
              /\ callers[c].file = "users" => users' = callers[c].new
              /\ callers[c].file = "teams" => teams' = callers[c].new]_vars

C25_Witness ==
    /\ \A c \in Callers :
          /\ callers[c].pc = "done"
          /\ callers[c].op = "create_user"
          /\ callers[c].out.exc = "none"
          /\ callers[c].out.id # None
    /\ \E c \in Callers :
          \A i \in 1..Len(users) : users[i].id # callers[c].out.id

(***************************************************************************)
(* C26: no operation removes an entity.  Across every step the ids of the  *)
(* users, of the teams, of the boards and of the tasks before the step     *)
(* are ids after it, so an id that resolved once resolves ever after.      *)
(***************************************************************************)
IdsOf(list) == {list[i].id : i \in 1..Len(list)}

C26_EntitiesNeverRemoved ==
    [][/\ IdsOf(users) \subseteq IdsOf(users')
       /\ IdsOf(teams) \subseteq IdsOf(teams')
       /\ IdsOf(boards) \subseteq IdsOf(boards')
       /\ IdsOf(tasks) \subseteq IdsOf(tasks')]_vars

C26_Witness ==
    /\ Succeeded(last, "remove_users_from_team")
    /\ Len(users) >= 2
    /\ \E i \in 1..Len(teams) : Cardinality(teams[i].members) = 1
    /\ Len(boards) >= 1

(***************************************************************************)
(* C27: every board's team_id is the id of a team, in every state; a       *)
(* create_board whose team_id is the id of no team fails and stores no     *)
(* board; and no step changes the team_id of a stored board.               *)
(***************************************************************************)
IsTeam(id) == \E i \in 1..Len(teams) : teams[i].id = id

BoardTeamsAreTeams == \A i \in 1..Len(boards) : IsTeam(boards[i].team_id)

UnknownTeamRejectedAndTeamKept ==
    /\ last'.op = "create_board" =>
          \A name \in BoardNames, team_id \in {Uuid("t", 1), NoTeamId}, now \in Times :
              (~IsTeam(team_id) /\ create_board(name, <<>>, team_id, None, now)) =>
                  /\ Failed(last')
                  /\ boards' = boards
    /\ \A i \in 1..Len(boards) :
          /\ i <= Len(boards')
          /\ boards'[i].id = boards[i].id
          /\ boards'[i].team_id = boards[i].team_id

C27_BoardTeamExistsAndFixed ==
    []BoardTeamsAreTeams /\ [][UnknownTeamRejectedAndTeamKept]_vars

C27_Witness ==
    /\ last.op = "create_board"
    /\ last.exc = "ValueError"
    /\ last.msg = "Team ID does not exist"
    /\ Len(teams) >= 1
    /\ Len(boards) >= 1

(***************************************************************************)
(* C28: in every state reached by the team operations, get_user_teams of   *)
(* the id of a user returns one entry for each team whose members contain  *)
(* the id and nothing else, and get_user_teams of a well-formed id of no   *)
(* user fails with ResourceNotFoundError.                                  *)
(***************************************************************************)
TeamsOfMember(id) == {i \in 1..Len(teams) : id \in teams[i].members}

C28_UserTeamsAreMemberships ==
    \A id \in UserIds :
        LET out == get_user_teams(id)
        IN  IF \E i \in 1..Len(users) : users[i].id = id
            THEN /\ out.exc = "none"
                 /\ Len(out.val) = Cardinality(TeamsOfMember(id))
                 /\ \A i \in TeamsOfMember(id) :
                       \E k \in 1..Len(out.val) : out.val[k].name = teams[i].name
                 /\ \A k \in 1..Len(out.val) :
                       \E i \in TeamsOfMember(id) : out.val[k].name = teams[i].name
            ELSE /\ out.exc = "ResourceNotFoundError"
                 /\ out.val = <<>>

C28_Witness ==
    /\ Succeeded(last, "get_user_teams")
    /\ Len(teams) = 2
    /\ \E u, v \in UserIds :
          /\ Len(get_user_teams(u).val) = 2
          /\ get_user_teams(v).exc = "none"
          /\ Len(get_user_teams(v).val) = 1

(***************************************************************************)
(* C29: for every stored board, the summary export_board writes counts,    *)
(* for each of OPEN, IN_PROGRESS and COMPLETE, the tasks of that board     *)
(* that hold the status now, and its total is the sum of the three counts. *)
(***************************************************************************)
TasksHolding(board_id, status) ==
    {i \in 1..Len(tasks) : tasks[i].board_id = board_id /\ tasks[i].status = status}

C29_ExportCountsMatch ==
    \A b \in 1..Len(boards) :
        LET out == export_board(boards[b].id)
        IN  /\ out.exc = "none"
            /\ \A s \in {"OPEN", "IN_PROGRESS", "COMPLETE"} :
                  out.task_counts[s] = Cardinality(TasksHolding(boards[b].id, s))
            /\ out.total = out.task_counts["OPEN"] + out.task_counts["IN_PROGRESS"]
                               + out.task_counts["COMPLETE"]

C29_Witness ==
    /\ Succeeded(last, "export_board")
    /\ Len(boards) = 2
    /\ export_board(boards[1].id).task_counts["IN_PROGRESS"] = 1
    /\ export_board(boards[1].id).task_counts["COMPLETE"] = 1
    /\ export_board(boards[1].id).total = 2
    /\ export_board(boards[2].id).task_counts["OPEN"] = 2

(***************************************************************************)
(* C30: in every state every task's status is OPEN, IN_PROGRESS or         *)
(* COMPLETE; the task an add_task stores is OPEN; and an                   *)
(* update_task_status asking for any other status fails and leaves the     *)
(* tasks as they were.                                                     *)
(***************************************************************************)
TaskStatusesValid ==
    \A i \in 1..Len(tasks) : tasks[i].status \in {"OPEN", "IN_PROGRESS", "COMPLETE"}

CreatedOpenAndOtherStatusRejected ==
    /\ Succeeded(last', "add_task") =>
          /\ Len(tasks') = Len(tasks) + 1
          /\ tasks'[Len(tasks')].id = last'.id
          /\ tasks'[Len(tasks')].status = "OPEN"
    /\ last'.op = "update_task_status" =>
          \A id \in {Uuid("k", 1), NoTaskId},
             status \in {"IN_PROGRESS", "COMPLETE", "DONE"} :
              (/\ status \notin {"OPEN", "IN_PROGRESS", "COMPLETE"}
               /\ update_task_status(id, status)) =>
                  /\ Failed(last')
                  /\ tasks' = tasks

C30_TaskStatusAlwaysValid ==
    []TaskStatusesValid /\ [][CreatedOpenAndOtherStatusRejected]_vars

C30_Witness ==
    /\ last.op = "update_task_status"
    /\ last.exc = "ValueError"
    /\ last.msg = "Status must be one of: OPEN, IN_PROGRESS, COMPLETE"
    /\ Len(tasks) = 1
    /\ tasks[1].status = "COMPLETE"

(***************************************************************************)
(* C31: a successful update_team leaves the stored name when the name      *)
(* given is empty or blank, leaves the stored description when the         *)
(* description given is empty or blank, and leaves the stored admin and    *)
(* the members when no admin is given: each field is applied by itself.    *)
(***************************************************************************)
C31_UpdateTeamFieldsIndependent ==
    [][Succeeded(last', "update_team") =>
          \A id \in {Uuid("t", 1), NoTeamId},
             name \in {<<>>, <<" ">>, <<"T", "2">>, <<"T", "3">>},
             description \in {<<>>, <<" ">>, <<"d">>},
             admin \in {None, Uuid("u", 2), Uuid("u", 3)} :
              update_team(id, name, description, admin) =>
                  \A i \in 1..Len(teams) :
                      teams[i].id = id =>
                          /\ name \in {<<>>, <<" ">>} => teams'[i].name = teams[i].name
                          /\ name \notin {<<>>, <<" ">>} => teams'[i].name = name
                          /\ description \in {<<>>, <<" ">>} =>
                                teams'[i].description = teams[i].description
                          /\ description \notin {<<>>, <<" ">>} =>
                                teams'[i].description = description
                          /\ admin = None =>
                                /\ teams'[i].admin = teams[i].admin
                                /\ teams'[i].members = teams[i].members]_vars

C31_Witness ==
    /\ Succeeded(last, "update_team")
    /\ Len(teams) >= 1
    /\ teams[1].name = <<"T", "1">>
    /\ teams[1].description = <<"d">>
    /\ teams[1].admin = Uuid("u", 1)
    /\ teams[1].members = {Uuid("u", 1), Uuid("u", 2)}

(***************************************************************************)
(* C32: remove_users_from_team of a stored team, with ids none of which    *)
(* is a member or the admin, succeeds and leaves the teams as they were;   *)
(* and after any successful remove_users_from_team none of the ids given   *)
(* is a member, so the same call made again changes nothing.               *)
(***************************************************************************)
C32_RemoveNonMembersIsNoOp ==
    [][last'.op = "remove_users_from_team" =>
          \A id \in {Uuid("t", 1), NoTeamId},
             user_ids \in DistinctLists(UserIds, MaxListLen) :
              remove_users_from_team(id, user_ids) =>
                  \A i \in 1..Len(teams) :
                      teams[i].id = id =>
                          /\ (\A k \in 1..Len(user_ids) :
                                 /\ user_ids[k] \notin teams[i].members
                                 /\ user_ids[k] # teams[i].admin) =>
                                /\ Succeeded(last', "remove_users_from_team")
                                /\ teams' = teams
                          /\ Succeeded(last', "remove_users_from_team") =>
                                \A k \in 1..Len(user_ids) :
                                    user_ids[k] \notin teams'[i].members]_vars

C32_Witness ==
    /\ Succeeded(last, "remove_users_from_team")
    /\ Len(teams) >= 1
    /\ teams[1].members = {Uuid("u", 1), Uuid("u", 2)}

(***************************************************************************)
(* C33: in every state every user's display_name is non-empty; a           *)
(* create_user given an empty or blank display_name stores the user's      *)
(* name as display_name; and an update_user given an empty or blank        *)
(* display_name leaves the users as they were.                             *)
(***************************************************************************)
DisplayNamesNonEmpty == \A i \in 1..Len(users) : users[i].display_name # <<>>

BlankDisplayNameDefaultsOrKeeps ==
    /\ Succeeded(last', "create_user") =>
          \A r \in CreateUserRequests :
              (r.display_name \in {<<>>, <<" ">>}
               /\ create_user(r.name, r.display_name)) =>
                  /\ Len(users') = Len(users) + 1
                  /\ users'[Len(users')].display_name = users'[Len(users')].name
    /\ Succeeded(last', "update_user") =>
          \A r \in UpdateUserRequests :
              (r.display_name \in {<<>>, <<" ">>}
               /\ update_user(r.id, r.name, r.display_name)) => users' = users

C33_DisplayNameNeverEmpty ==
    []DisplayNamesNonEmpty /\ [][BlankDisplayNameDefaultsOrKeeps]_vars

C33_Witness ==
    /\ Succeeded(last, "update_user")
    /\ Len(users) = 2
    /\ users[1].display_name = <<"D">>
    /\ users[2].display_name = users[2].name

(***************************************************************************)
(* C34: in every state a board's end_time is null exactly when its status  *)
(* is OPEN, and is a time exactly when its status is CLOSED.               *)
(***************************************************************************)
C34_EndTimeIffClosed ==
    \A i \in 1..Len(boards) :
        /\ boards[i].end_time = None <=> boards[i].status = "OPEN"
        /\ boards[i].end_time # None <=> boards[i].status = "CLOSED"

C34_Witness ==
    /\ Succeeded(last, "close_board")
    /\ \E i, j \in 1..Len(boards) :
          /\ boards[i].status = "CLOSED"
          /\ boards[i].end_time # None
          /\ boards[j].status = "OPEN"
          /\ boards[j].end_time = None

(***************************************************************************)
(* C35: with the calls made one at a time, no step changes the set of      *)
(* tasks of a board that is CLOSED before the step: add_task attaches no   *)
(* task to it, whether the board is named or the default board is taken.   *)
(***************************************************************************)
C35_ClosedBoardTasksFixed ==
    [][\A i \in 1..Len(boards) :
          boards[i].status = "CLOSED" =>
              {tasks'[k].id : k \in {n \in 1..Len(tasks') :
                                       tasks'[n].board_id = boards[i].id}}
              = {tasks[k].id : k \in {n \in 1..Len(tasks) :
                                        tasks[n].board_id = boards[i].id}}]_vars

C35_Witness ==
    /\ Succeeded(last, "add_task")
    /\ Len(boards) = 2
    /\ boards[1].status = "CLOSED"
    /\ boards[2].status = "OPEN"
    /\ Len(tasks) = 2
    /\ tasks[1].board_id = boards[1].id
    /\ tasks[2].board_id = boards[2].id
    /\ tasks[2].id = last.id

(***************************************************************************)
(* C36: with add_task and close_board of the same board interleaved at     *)
(* their loads and saves, every task that a save of the tasks adds is a    *)
(* task of a board that the boards hold as OPEN at that save.  Violated:   *)
(* add_task checks the board's status in the boards it loaded first and    *)
(* does not load the boards again before it saves the tasks.               *)
(***************************************************************************)
C36_NoTaskWrittenToClosedBoard ==
    [][\A k \in 1..Len(tasks') :
          (\A n \in 1..Len(tasks) : tasks[n].id # tasks'[k].id) =>
              \A i \in 1..Len(boards) :
                  boards[i].id = tasks'[k].board_id => boards[i].status = "OPEN"]_vars

(***************************************************************************)
(* C37: with update_team, add_users_to_team and remove_users_from_team of  *)
(* the same team interleaved at their loads and saves, the admin of every  *)
(* team is among its members in every state of the stored teams.           *)
(***************************************************************************)
C37_AdminIsMemberUnderInterleaving ==
    \A i \in 1..Len(teams) :
        \E m \in teams[i].members : m = teams[i].admin

C37_Witness ==
    /\ \A c \in Callers : callers[c].pc = "done" /\ callers[c].out.exc = "none"
    /\ \E c, d \in Callers :
          /\ callers[c].op = "update_team"
          /\ callers[d].op = "remove_users_from_team"
    /\ teams[1].admin = Uuid("u", 1)
    /\ teams[1].members = {Uuid("u", 1)}
    /\ last.op = "remove_users_from_team"

(***************************************************************************)
(* C38: a successful update_task_status changes the status of the task it  *)
(* names and nothing else: that task keeps its id, title, user_id and      *)
(* board_id, every other task is as it was, and so are the boards, the     *)
(* teams and the users.                                                    *)
(***************************************************************************)
C38_UpdateTaskStatusFrame ==
    [][Succeeded(last', "update_task_status") =>
          \A r \in BoardsUpdateTaskStatusRequests :
              update_task_status(r.id, r.status) =>
                  /\ Len(tasks') = Len(tasks)
                  /\ \A k \in 1..Len(tasks) :
                        /\ tasks[k].id = r.id =>
                              tasks'[k] = [tasks[k] EXCEPT !.status = r.status]
                        /\ tasks[k].id # r.id => tasks'[k] = tasks[k]
                  /\ boards' = boards
                  /\ teams' = teams
                  /\ users' = users]_vars

C38_Witness ==
    /\ Succeeded(last, "update_task_status")
    /\ Len(tasks) = 2
    /\ tasks[1].status = "IN_PROGRESS"
    /\ tasks[2].status = "OPEN"
    /\ \E i \in 1..Len(boards) :
          boards[i].id = tasks[1].board_id /\ boards[i].status = "CLOSED"

====
